---------------------------- MODULE Spec2Model ----------------------------
(***************************************************************************)
(* Arbitrage search of etherfuse/arb.                                      *)
(*                                                                         *)
(* Seven specifications share the module.  LimiterSpec follows one          *)
(* RateLimiter (rate_limiter.rs) and its caller; CycleSpec follows the run *)
(* loop of run.rs / trading_engine.rs, each search being represented by    *)
(* what it returns; BundleSpec (BundleFairSpec with fairness) follows one  *)
(* JitoClient::send_bundle and the status polling (jito.rs); BuilderSpec   *)
(* follows one MarketDataBuilder (market_data.rs); MathSpec applies the    *)
(* checked arithmetic of math.rs to bounded operands; TippingSpec          *)
(* (TippingFairSpec with fairness) follows the tip stream task and the     *)
(* main task of the TestArb command (main.rs); Spec (FairSpec with         *)
(* fairness) follows one search.                                           *)
(*                                                                         *)
(* One behaviour of Spec is one call of one of the six search functions on *)
(* one market snapshot:                                                    *)
(*   strategy.rs        JupiterSellBuyEtherfuse::process_market_data and   *)
(*                      BuyEtherfuseSellJupiter::process_market_data       *)
(*                      (exponential probe over 8 fractions of the max)    *)
(*   trading_engine.rs  Strategy::check_jupiter_buy_etherfuse_sell_...     *)
(*                      Strategy::check_jupiter_sell_etherfuse_buy_...     *)
(*                      (bisection over [MIN_USDC_AMOUNT, max])            *)
(*   run.rs             ArbitrageEngine::check_jupiter_buy_etherfuse_...   *)
(*                      ArbitrageEngine::check_jupiter_sell_etherfuse_...  *)
(*                      (geometric shrink of the max by 0.80)              *)
(*                                                                         *)
(* Units.  Token amounts are raw u64 units (USDC_DECIMALS =                *)
(* STABLEBOND_DECIMALS = 6).  Prices are whole quote units per bond token, *)
(* so raw_usdc = raw_stablebond * price, and a profit is held in raw quote *)
(* units (the f64 profit times 10^6).  f64 arithmetic is modelled by exact *)
(* integer arithmetic with the truncation of `as u64`; on the amounts of   *)
(* the model the f64 results differ from it by at most one raw unit.       *)
(***************************************************************************)
EXTENDS Integers, Sequences, FiniteSets, TLC

(***************************************************************************)
(* Program constants                                                       *)
(***************************************************************************)
MIN_USDC_AMOUNT == 1000000
INITIAL_POINTS == 8
MAX_RETRIES == 3
MAX_USDC_AMOUNT_PER_TRADE == 1000
\* 20_000_000_000 raw units; the wallet balances and holdings of the bond
\* token are held in tens of raw units in BuilderSpec
MAX_STABLEBOND_AMOUNT_PER_TRADE == 2000000000

(***************************************************************************)
(* Bounds of the model                                                     *)
(***************************************************************************)
\* widest bisection interval explored: right - MIN_USDC_AMOUNT <= MaxSpread
MaxSpread == 4
\* largest holdings / liquidity of a snapshot, in whole quote units
MaxWholeUsdc == 102
\* quote requests per candidate counted in the loops that retry for ever
\* (the count saturates there)
MaxAttempts == 3
\* rate limiter: last tick of the clock, and wait_if_needed calls followed
MaxClock == 5
MaxCalls == 5
\* run loop: cycles followed, and profits a strategy may report
MaxCycles == 2
MaxProfit == 2
\* bundle status polling: longest status request, and longest delay of a
\* wake-up after the end of a sleep, in seconds
MaxRequestSecs == 1
MaxOversleep == 1
\* snapshot builder: how far a wallet balance may exceed its ceiling
MaxExcess == 1
\* math.rs: bits of the unsigned word that stands for u64
WordBits == 6
\* TestArb: items of the tip stream followed, and the largest tip, in lamports
MaxMessages == 3
MaxTip == 2

\* Option::None of a MarketData field
NONE == -1
\* Result::Err of a fetch
FetchErr == -2
\* an f64 that is not finite (inf or NaN)
NonFinite == -3

IssuerPrices == {100}
\* prices the swap router may answer with: below the issuer price, just
\* above it, and far above it
RouterPrices == {99, 101, 200}

ProbeVariants == {"JupiterSellBuyEtherfuse", "BuyEtherfuseSellJupiter"}
BisectVariants == {"bisect_jupiter_buy_etherfuse_sell", "bisect_jupiter_sell_etherfuse_buy"}
ShrinkVariants == {"shrink_jupiter_buy_etherfuse_sell", "shrink_jupiter_sell_etherfuse_buy"}
Variants == ProbeVariants \cup BisectVariants \cup ShrinkVariants

\* the variants whose router leg is a buy (buy_quote, then redeem on the issuer)
BuyOnRouter == {"JupiterSellBuyEtherfuse", "bisect_jupiter_buy_etherfuse_sell",
                "shrink_jupiter_buy_etherfuse_sell"}

(***************************************************************************)
(* Pure functions                                                          *)
(***************************************************************************)
Min(a, b) == IF a <= b THEN a ELSE b

\* a / b rounded to the nearest integer (an f64 quotient at the price
\* resolution of the model)
RoundDiv(a, b) == (2 * a + b) \div (2 * b)

\* trade_percent of point i, times PointScale:
\* MIN_TRADE_PERCENT + (MAX_TRADE_PERCENT - MIN_TRADE_PERCENT) * (i/7)^1.5
PointScale == 100000000
points_descending == <<100000000, 79562448, 60764479, 43763980,
                       28776020, 16119350, 6345498, 1000000>>
points == <<1000000, 6345498, 16119350, 28776020,
            43763980, 60764479, 79562448, 100000000>>

\* (max_amount as f64 * trade_percent) as u64, for point i in 1..INITIAL_POINTS;
\* the product is split in halves of four digits to stay within 32 bits
CandidateUsdc(max_amount, i) ==
    LET a == max_amount \div 10000
        b == max_amount % 10000
        c == points[i] \div 10000
        e == points[i] % 10000
    IN  a * c + ((a * e + b * c) + ((b * e) \div 10000)) \div 10000

\* (usdc_amount as f64 / etherfuse_price_per_token) as u64
StablebondFor(usdc_amount, price) == usdc_amount \div price

\* the lower end taken for the midpoint
mid_usdc_at_left(l, r) == l

\* let mid_usdc = left + (right - left) / 2
mid_usdc(l, r) == l + (r - l) \div 2

\* (x as f64 * 0.80) as u64
Shrink80(x) == (4 * x) \div 5

\* the prices taken in the opposite roles
profit_from_arb_swapped(sell_price, buy_price, token_amount) ==
    token_amount * buy_price - token_amount * sell_price

\* math::profit_from_arb: token_amount * sell_price - token_amount * buy_price
profit_from_arb(sell_price, buy_price, token_amount) ==
    token_amount * sell_price - token_amount * buy_price

\* math::profit_from_arb returns Err("Math overflow"): a product or the
\* difference is not finite
profit_from_arb_is_err(sell_price, buy_price, token_amount) ==
    sell_price = NonFinite \/ buy_price = NonFinite

\* the holdings left out of the minimum
MaxUsdcToRedeemLiquidityOnly(m) == m.sell_liquidity_usdc_amount

\* the issuer-side maximum of the redeeming strategies:
\* to_token_amount(min(sell_liquidity.to_ui_amount(), holdings.to_ui_amount() * price))
MaxUsdcToRedeem(m) ==
    Min(m.sell_liquidity_usdc_amount,
        m.stablebond_holdings_token_amount * m.etherfuse_price_per_token)

\* the whole holdings, without the 1% reserve
MaxUsdcToPurchaseAll(m) == m.usdc_holdings_token_amount

\* the maximum of the purchasing strategies:
\* (usdc_holdings.to_ui_amount() * 0.99).to_token_amount()
MaxUsdcToPurchase(m) ==
    LET u == m.usdc_holdings_token_amount
    IN  (u \div 100) * 99 + ((u % 100) * 99) \div 100

\* no size is skipped
IsTinyNever(usdc_amount) == FALSE

\* "Skip tiny amounts"
IsTiny(usdc_amount) == usdc_amount < MIN_USDC_AMOUNT

\* a candidate of equal profit replaces the incumbent
ImprovesOrTies(potential_profit, best) == potential_profit >= best

\* potential_profit > best_profit
Improves(potential_profit, best) == potential_profit > best

\* The answer of the router to a quote request for `amount` of the input
\* mint at price p: the output amount is truncated to raw units.
RouterQuote(v, amount, p) ==
    IF v \in BuyOnRouter
    THEN [in_amount |-> amount, out_amount |-> amount \div p]
    ELSE [in_amount |-> amount, out_amount |-> amount * p]

\* The answer of the router that leaves the price without a finite value:
\* nothing out for a buy, nothing in for a sell.
DegenerateQuote(v, amount) ==
    IF v \in BuyOnRouter
    THEN [in_amount |-> amount, out_amount |-> 0]
    ELSE [in_amount |-> 0, out_amount |-> amount]

\* JupiterClient::buy_quote: quote currency in, bond out; price = in / out
\* (x / 0 is inf, 0 / 0 is NaN)
buy_quote(q) ==
    IF q.out_amount = 0 THEN NonFinite ELSE RoundDiv(q.in_amount, q.out_amount)

\* JupiterClient::sell_quote: bond in, quote currency out; price = 1 / (in / out)
\* (1 / 0 is inf, 1 / NaN is NaN, 1 / inf is 0)
sell_quote(q) ==
    IF q.in_amount = 0 THEN NonFinite ELSE RoundDiv(q.out_amount, q.in_amount)

QuotePrice(v, q) == IF v \in BuyOnRouter THEN buy_quote(q) ELSE sell_quote(q)

\* the amount a quote is requested for: buy_quote(usdc), sell_quote(stablebond)
QuoteAmount(v, usdc, stablebond) == IF v \in BuyOnRouter THEN usdc ELSE stablebond

\* Option::None of best_quote
NoQuote == [in_amount |-> 0, out_amount |-> 0]

\* the router swap pushed before the issuer purchase
LegsBuyEtherfuseSellJupiterSwapped == <<"jupiter_swap", "etherfuse_purchase">>

\* the two trade legs in the order they are pushed to txs
LegsJupiterSellBuyEtherfuse == <<"jupiter_swap", "etherfuse_redeem">>
LegsBuyEtherfuseSellJupiter == <<"etherfuse_purchase", "jupiter_swap">>
Legs(v) == IF v \in BuyOnRouter THEN LegsJupiterSellBuyEtherfuse
           ELSE LegsBuyEtherfuseSellJupiter

\* the oracle update pushed after the legs
AssembleTxsOracleLast(oracle_ok, legs_ok, legs) ==
    (IF legs_ok THEN legs ELSE << >>) \o
    (IF oracle_ok THEN <<"update_oracle">> ELSE << >>)

\* the first leg pushed as soon as it is built
AssembleTxsLegByLeg(oracle_ok, legs_ok, legs) ==
    (IF oracle_ok THEN <<"update_oracle">> ELSE << >>) \o
    (IF legs_ok THEN legs ELSE <<legs[1]>>)

\* txs of a result: the oracle update if it could be built, then both legs
\* if both could be built
AssembleTxs(oracle_ok, legs_ok, legs) ==
    (IF oracle_ok THEN <<"update_oracle">> ELSE << >>) \o
    (IF legs_ok THEN legs ELSE << >>)

\* one call of a transaction builder: the transaction asked for, the quote
\* handed to it (jupiter_swap_tx only) and whether it returned Ok
BuilderCall(tx, quote, ok) ==
    [tx |-> tx, quote |-> IF tx = "jupiter_swap" THEN quote ELSE NoQuote, ok |-> ok]

\* the builders called after the search, in order: the oracle update, the
\* first leg, and the second leg inside the `if let Ok` of the first
BuilderCalls(oracle_ok, first_ok, second_ok, legs, quote) ==
    <<BuilderCall("update_oracle", quote, oracle_ok),
      BuilderCall(legs[1], quote, first_ok)>> \o
    (IF first_ok THEN <<BuilderCall(legs[2], quote, second_ok)>> ELSE << >>)

NoResult == [kind |-> "none", profit |-> 0, msg |-> ""]
Err(m) == [kind |-> "err", profit |-> 0, msg |-> m]
Ok(p) == [kind |-> "ok", profit |-> p, msg |-> ""]
\* Option::unwrap on None
Panic == [kind |-> "panic", profit |-> 0, msg |-> "called Option::unwrap() on a None value"]

(***************************************************************************)
(* Snapshots                                                               *)
(***************************************************************************)
Whole(k) == k * MIN_USDC_AMOUNT

LargeAmounts == {Whole(8)} \cup {Whole(k) : k \in 102..MaxWholeUsdc}
\* around the floor, for the interval of the bisection
NearFloor == (MIN_USDC_AMOUNT - 1)..(MIN_USDC_AMOUNT + MaxSpread)
\* holdings whose 99% lie around the floor
NearFloorHoldings == 1010101..(1010102 + MaxSpread)

Snapshot(price, sell, bonds, purchase, usdc, tip) ==
    [etherfuse_price_per_token |-> price,
     sell_liquidity_usdc_amount |-> sell,
     stablebond_holdings_token_amount |-> bonds,
     purchase_liquidity_stablebond_amount |-> purchase,
     usdc_holdings_token_amount |-> usdc,
     jito_tip |-> tip]

SnapshotsFor(v) ==
    CASE v = "JupiterSellBuyEtherfuse" ->
           {Snapshot(p, s, b, l, Whole(8), 10000) :
              p \in IssuerPrices,
              s \in {NONE, 0, MIN_USDC_AMOUNT - 1, MIN_USDC_AMOUNT} \cup LargeAmounts,
              b \in {0, 50000, 2000000},
              l \in {0, 2000000}}
      [] v = "BuyEtherfuseSellJupiter" ->
           {Snapshot(p, s, 50000, 2000000, u, 10000) :
              p \in IssuerPrices,
              s \in {0, Whole(8)},
              u \in {NONE, 0, MIN_USDC_AMOUNT, 1010102} \cup LargeAmounts}
      [] v \in {"bisect_jupiter_buy_etherfuse_sell"} ->
           {Snapshot(p, s, b, 0, 0, 10000) :
              p \in IssuerPrices, s \in {0} \cup NearFloor, b \in {0, 50000}}
      [] v \in {"bisect_jupiter_sell_etherfuse_buy"} ->
           {Snapshot(p, 0, 0, 0, u, 10000) :
              p \in IssuerPrices, u \in {0} \cup NearFloorHoldings}
      [] v \in {"shrink_jupiter_buy_etherfuse_sell"} ->
           {Snapshot(p, s, b, 0, 0, 10000) :
              p \in IssuerPrices,
              s \in {0, MIN_USDC_AMOUNT} \cup LargeAmounts, b \in {0, 2000000}}
      [] OTHER ->
           {Snapshot(p, 0, 0, 0, u, 10000) :
              p \in IssuerPrices, u \in {0, 1010102} \cup LargeAmounts}

(***************************************************************************)
(* State                                                                   *)
(***************************************************************************)
VARIABLES
    variant,                 \* the search function that runs
    md,                      \* the MarketData snapshot it runs on
    pc,                      \* "start", "head", "acquire", "quote", "finish", "done"
    max_amount,              \* max_usdc_token_amount_to_redeem / _to_purchase
    idx,                     \* probe: number of points taken from `points`;
                             \* bisection: number of midpoints taken
    left, right,             \* bisection interval
    usdc_amount,             \* current candidate, quote currency
    stablebond_amount,       \* current candidate, bond tokens
    retries,                 \* probe: failed quote requests of the candidate
    best_profit, best_usdc_amount, best_stablebond_amount, best_quote,
    txs, result,
    \* history
    built,                   \* the transaction builders called, in order
    attempts,                \* quote requests issued for the current candidate
    quoted,                  \* prices of the quotes received so far
    gave_up,                 \* a candidate was skipped after MAX_RETRIES failures
    evaluated,               \* summary of the candidates evaluated so far
    acquired,                \* wait_if_needed returned since the last quote answer
    in_flight                \* quote requests issued and not yet answered

\* rate_limiter.rs: one RateLimiter and its caller
VARIABLES
    clock,                   \* Instant::now(), in ticks
    requests,                \* RateLimiter::requests, front first
    window,                  \* RateLimiter::window, in ticks
    max_requests,            \* RateLimiter::max_requests
    now,                     \* `now` of the wait_if_needed call in progress
    wake_at,                 \* end of its tokio::time::sleep(wait_time)
    rl_pc,                   \* "off", "idle", "sleeping"
    completed,               \* history: the times at which the calls returned
    idle_ticks               \* history: the clock advanced between two calls

\* run.rs / trading_engine.rs: the run loop and its cycle
VARIABLES
    cy_pc,                   \* "off", "tick", "fetch", "first", "second", "select", "exited"
    results,                 \* `results` of run_strategies
    outcomes,                \* history: what each strategy run in this cycle returned
    best_strategy,           \* `best_strategy` of the last cycle that selected one
    cycles,                  \* history: ticks of the interval taken
    run_result,              \* what run() returned, once it returned
    tick_due,                \* the interval has a tick ready
    overran,                 \* history: a tick became ready while a cycle ran
    running                  \* history: cycles started and not yet over

\* jito.rs: one call of JitoClient::send_bundle
VARIABLES
    jt_pc,                   \* "off", "start", "submit", "poll", "sleep",
                             \* "sleep_pending", "report", "done"
    caller_txs,              \* `txs` given by the caller
    submitted,               \* history: the bundles of the sendBundle requests
    elapsed,                 \* start_time.elapsed(), in seconds
    polls,                   \* history: getInflightBundleStatuses requests made
    seen,                    \* history: answers after which polling went on
    last_status,             \* history: answer to the last poll
    status_result,           \* what check_bundle_status returned
    send_result              \* what send_bundle returned

\* market_data.rs: one MarketDataBuilder
VARIABLES
    bd_pc,                   \* "off", "building", "built", "aborted"
    mb,                      \* the Option fields of the MarketDataBuilder
    mb_failed,               \* history: the with_X steps whose fetch failed
    mb_balance,              \* history: the wallet balances fetched
    snapshot                 \* the MarketData returned by build()

\* math.rs: one call of one function on one pair of arguments
VARIABLES
    m_pc,                    \* "off", "ready", "done"
    arg1, arg2,              \* the arguments (arg1 is also the raw amount)
    decimals,                \* the decimals of the round trip
    m_op,                    \* the function applied
    m_out                    \* what it returned

\* main.rs: the tip stream task and the main task of the TestArb command
VARIABLES
    use_jito,                \* args.use_jito: the tip stream task is spawned
    jito_tip,                \* the u64 behind the RwLock
    tip_lock,                \* "free", or "write" while the stream task holds the guard
    ws_pc,                   \* stream task: "off", "none", "next", "locked", "ended"
    item,                    \* the tip of the item being stored
    messages,                \* history: items received from the stream
    main_pc,                 \* main task: "off", "check", "sleep", "proceed", "done"
    tip_seen,                \* the value the main task read last, -1 before it reads
    written                  \* history: the tips the stream task has stored

limiter == <<clock, requests, window, max_requests, now, wake_at, rl_pc, completed,
             idle_ticks>>
timing == <<tick_due, overran, running>>
cycle == <<cy_pc, results, outcomes, best_strategy, cycles, run_result, timing>>
bundle == <<jt_pc, caller_txs, submitted, elapsed, polls, seen, last_status,
            status_result, send_result>>
builder == <<bd_pc, mb, mb_failed, mb_balance, snapshot>>
search == <<max_amount, idx, left, right, usdc_amount, stablebond_amount, retries>>
best == <<best_profit, best_usdc_amount, best_stablebond_amount, best_quote>>
history == <<attempts, quoted, gave_up, evaluated, acquired, in_flight>>
searching == <<variant, md, pc, search, best, txs, result, built, history>>
math == <<m_pc, arg1, arg2, decimals, m_op, m_out>>
tipping == <<use_jito, jito_tip, tip_lock, ws_pc, item, messages, main_pc, tip_seen, written>>
vars == <<searching, limiter, cycle, bundle, builder, math, tipping>>

\* any: a candidate was evaluated; max is the greatest profit evaluated,
\* first_usdc and first_quote the size and the quote of the earliest candidate
\* that reached it; tie: a later candidate equalled this maximum
NoneEvaluated == [any |-> FALSE, max |-> 0, first_usdc |-> 0,
                  first_quote |-> NoQuote, tie |-> FALSE]

Record(ev, profit, usdc, q) ==
    IF ~ev.any \/ profit > ev.max
    THEN [any |-> TRUE, max |-> profit, first_usdc |-> usdc,
          first_quote |-> q, tie |-> FALSE]
    ELSE [ev EXCEPT !.tie = ev.tie \/ (profit = ev.max)]

\* no limiter is followed
LimiterOff ==
    /\ clock = 0 /\ requests = << >> /\ window = 0 /\ max_requests = 0
    /\ now = 0 /\ wake_at = 0 /\ rl_pc = "off"
    /\ completed = << >> /\ idle_ticks = FALSE

NoStrategyResult == [by |-> "none", profit |-> 0]

\* no run loop is followed
CycleOff ==
    /\ cy_pc = "off" /\ results = << >> /\ outcomes = << >>
    /\ best_strategy = NoStrategyResult /\ cycles = 0 /\ run_result = "running"
    /\ tick_due = FALSE /\ overran = FALSE /\ running = 0

\* no bundle is sent
BundleOff ==
    /\ jt_pc = "off" /\ caller_txs = << >> /\ submitted = << >>
    /\ elapsed = 0 /\ polls = 0 /\ seen = {} /\ last_status = "none"
    /\ status_result = "none" /\ send_result = "none"

\* MarketDataBuilder::new: every field None
NewBuilder ==
    [etherfuse_price_per_token |-> NONE, sell_liquidity_usdc_amount |-> NONE,
     stablebond_holdings_token_amount |-> NONE,
     purchase_liquidity_stablebond_amount |-> NONE,
     usdc_holdings_token_amount |-> NONE, jito_tip |-> NONE,
     switchboard_update_tx |-> NONE]

\* no TestArb command runs
TippingOff ==
    /\ use_jito = FALSE /\ jito_tip = 0 /\ tip_lock = "free" /\ ws_pc = "off"
    /\ item = 0 /\ messages = 0 /\ main_pc = "off" /\ tip_seen = -1 /\ written = {}

\* no function of math.rs is called
MathOff ==
    /\ m_pc = "off" /\ arg1 = 0 /\ arg2 = 0 /\ decimals = 0
    /\ m_op = "none" /\ m_out = [ok |-> TRUE, val |-> 0]

\* no snapshot is built
BuilderOff ==
    /\ bd_pc = "off" /\ mb = NewBuilder /\ mb_failed = {}
    /\ mb_balance = [stablebond |-> NONE, usdc |-> NONE]
    /\ snapshot = NewBuilder

Init ==
    /\ LimiterOff /\ CycleOff /\ BundleOff /\ BuilderOff /\ MathOff /\ TippingOff
    /\ variant \in Variants
    /\ md \in SnapshotsFor(variant)
    /\ pc = "start"
    /\ max_amount = 0 /\ idx = 0 /\ left = 0 /\ right = 0
    /\ usdc_amount = 0 /\ stablebond_amount = 0 /\ retries = 0
    /\ best_profit = 0 /\ best_usdc_amount = 0 /\ best_stablebond_amount = 0
    /\ best_quote = NoQuote
    /\ txs = << >> /\ result = NoResult /\ built = << >>
    /\ attempts = 0 /\ quoted = {} /\ gave_up = FALSE
    /\ evaluated = NoneEvaluated
    /\ acquired = FALSE /\ in_flight = 0

Return(r) ==
    /\ pc' = "done"
    /\ result' = r

\* the quote of the first improvement is kept for ever
EvaluateKeepingQuote(q) ==
    LET price == QuotePrice(variant, q)
        potential_profit ==
            profit_from_arb(price, md.etherfuse_price_per_token, stablebond_amount)
    IN  /\ quoted' = quoted \cup {price}
        /\ evaluated' = Record(evaluated, potential_profit, usdc_amount, q)
        /\ IF Improves(potential_profit, best_profit)
           THEN /\ best_profit' = potential_profit
                /\ best_usdc_amount' = usdc_amount
                /\ best_stablebond_amount' = stablebond_amount
                /\ best_quote' = IF best_quote = NoQuote THEN q ELSE best_quote
           ELSE UNCHANGED best

\* the evaluation of a quoted candidate: profit, comparison, best-so-far
Evaluate(q) ==
    LET price == QuotePrice(variant, q)
        potential_profit ==
            profit_from_arb(price, md.etherfuse_price_per_token, stablebond_amount)
    IN  /\ quoted' = quoted \cup {price}
        /\ evaluated' = Record(evaluated, potential_profit, usdc_amount, q)
        /\ IF Improves(potential_profit, best_profit)
           THEN /\ best_profit' = potential_profit
                /\ best_usdc_amount' = usdc_amount
                /\ best_stablebond_amount' = stablebond_amount
                /\ best_quote' = q
           ELSE UNCHANGED best

(***************************************************************************)
(* strategy.rs: exponential probe                                          *)
(***************************************************************************)
\* JupiterSellBuyEtherfuse::process_market_data up to the loop
JupiterSellBuyEtherfuseStart ==
    /\ pc = "start" /\ variant = "JupiterSellBuyEtherfuse"
    /\ IF md.sell_liquidity_usdc_amount = NONE
       THEN Return(Err("Missing sell_liquidity_usdc_amount")) /\ UNCHANGED max_amount
       ELSE IF md.stablebond_holdings_token_amount = NONE
       THEN Return(Err("Missing stablebond_holdings_token_amount")) /\ UNCHANGED max_amount
       ELSE IF md.stablebond_holdings_token_amount = 0
       THEN Return(Err("Existing stablebond holdings are required for this strategy"))
            /\ UNCHANGED max_amount
       ELSE IF md.sell_liquidity_usdc_amount = 0
       THEN Return(Err("Sell liquidity in USDC is required for this strategy"))
            /\ UNCHANGED max_amount
       ELSE /\ max_amount' = MaxUsdcToRedeem(md)
            /\ pc' = "head"
            /\ UNCHANGED result
    /\ UNCHANGED <<limiter, cycle, bundle, builder, math, tipping, variant, md, built, idx, left, right, usdc_amount, stablebond_amount,
                   retries, best, txs, history>>

\* BuyEtherfuseSellJupiter::process_market_data up to the loop
BuyEtherfuseSellJupiterStart ==
    /\ pc = "start" /\ variant = "BuyEtherfuseSellJupiter"
    /\ IF md.usdc_holdings_token_amount = NONE
       THEN Return(Err("Missing usdc_holdings_token_amount")) /\ UNCHANGED max_amount
       ELSE IF md.usdc_holdings_token_amount = 0
       THEN Return(Err("USDC holdings are required for this strategy"))
            /\ UNCHANGED max_amount
       ELSE /\ max_amount' = MaxUsdcToPurchase(md)
            /\ pc' = "head"
            /\ UNCHANGED result
    /\ UNCHANGED <<limiter, cycle, bundle, builder, math, tipping, variant, md, built, idx, left, right, usdc_amount, stablebond_amount,
                   retries, best, txs, history>>

\* `for trade_percent in points`: the next point, skipped when tiny,
\* otherwise its first quote request
ProbeHead ==
    /\ pc = "head" /\ variant \in ProbeVariants
    /\ IF idx = INITIAL_POINTS
       THEN /\ pc' = "finish"
            /\ UNCHANGED <<idx, usdc_amount, stablebond_amount, retries, attempts,
                           in_flight>>
       ELSE LET usdc == CandidateUsdc(max_amount, idx + 1)
            IN  /\ idx' = idx + 1
                /\ usdc_amount' = usdc
                /\ stablebond_amount' = StablebondFor(usdc, md.etherfuse_price_per_token)
                /\ IF IsTiny(usdc)
                   THEN pc' = "head" /\ UNCHANGED <<retries, attempts, in_flight>>
                   ELSE /\ pc' = "quote" /\ retries' = 0 /\ attempts' = 1
                        /\ in_flight' = in_flight + 1
    /\ UNCHANGED <<limiter, cycle, bundle, builder, math, tipping, variant, md, built, max_amount, left, right, best, txs, result,
                   quoted, gave_up, evaluated, acquired>>

\* the quote request of the candidate is answered with a quote
ProbeQuoteOk ==
    /\ pc = "quote" /\ variant \in ProbeVariants
    /\ \E p \in RouterPrices :
         Evaluate(RouterQuote(variant, QuoteAmount(variant, usdc_amount, stablebond_amount), p))
    /\ pc' = "head"
    /\ acquired' = FALSE /\ in_flight' = in_flight - 1
    /\ UNCHANGED <<limiter, cycle, bundle, builder, math, tipping, variant, md, built, search, txs, result, attempts, gave_up>>

\* the quote arrives and profit_from_arb fails on it: "Error calculating
\* profit ... Skipping." and the next point
ProbeQuoteMathErr ==
    /\ pc = "quote" /\ variant \in ProbeVariants
    /\ LET q == DegenerateQuote(variant, QuoteAmount(variant, usdc_amount, stablebond_amount))
           price == QuotePrice(variant, q)
       IN  /\ profit_from_arb_is_err(price, md.etherfuse_price_per_token, stablebond_amount)
           /\ quoted' = quoted \cup {price}
    /\ pc' = "head"
    /\ acquired' = FALSE /\ in_flight' = in_flight - 1
    /\ UNCHANGED <<limiter, cycle, bundle, builder, math, tipping, variant, md, built, search, best, txs, result, attempts,
                   gave_up, evaluated>>

\* the quote request fails: retried after RETRY_DELAY_MS unless it was the
\* MAX_RETRIES-th failure, which skips the candidate
ProbeQuoteErr ==
    /\ pc = "quote" /\ variant \in ProbeVariants
    /\ retries' = retries + 1
    /\ IF retries + 1 >= MAX_RETRIES
       THEN /\ pc' = "head" /\ gave_up' = TRUE
            /\ in_flight' = in_flight - 1
            /\ UNCHANGED attempts
       ELSE /\ pc' = "quote" /\ attempts' = attempts + 1
            /\ in_flight' = (in_flight - 1) + 1
            /\ UNCHANGED gave_up
    /\ acquired' = FALSE
    /\ UNCHANGED <<limiter, cycle, bundle, builder, math, tipping, variant, md, built, max_amount, idx, left, right, usdc_amount,
                   stablebond_amount, best, txs, result, quoted, evaluated>>

\* after the loop: no best quote is the failure, otherwise the transactions
\* are built (each builder may fail) and the result returned
ProbeFinish ==
    /\ pc = "finish" /\ variant \in ProbeVariants
    /\ IF best_quote = NoQuote
       THEN Return(Err("No profitable trades found")) /\ UNCHANGED <<txs, built>>
       ELSE \E oracle_ok \in BOOLEAN, first_ok \in BOOLEAN, second_ok \in BOOLEAN :
              /\ txs' = AssembleTxs(oracle_ok, first_ok /\ second_ok, Legs(variant))
              /\ built' = BuilderCalls(oracle_ok, first_ok, second_ok, Legs(variant),
                                       best_quote)
              /\ Return(Ok(best_profit))
    /\ UNCHANGED <<limiter, cycle, bundle, builder, math, tipping, variant, md, search, best, history>>

(***************************************************************************)
(* trading_engine.rs: bisection                                            *)
(***************************************************************************)
\* Strategy::check_jupiter_buy_etherfuse_sell_opportunity up to the loop
BisectBuyStart ==
    /\ pc = "start" /\ variant = "bisect_jupiter_buy_etherfuse_sell"
    /\ IF md.sell_liquidity_usdc_amount = 0
       THEN Return(Ok(0)) /\ UNCHANGED <<max_amount, left, right>>
       ELSE /\ max_amount' = MaxUsdcToRedeem(md)
            /\ left' = MIN_USDC_AMOUNT
            /\ right' = MaxUsdcToRedeem(md)
            /\ pc' = "head"
            /\ UNCHANGED result
    /\ UNCHANGED <<limiter, cycle, bundle, builder, math, tipping, variant, md, built, idx, usdc_amount, stablebond_amount, retries,
                   best, txs, history>>

\* Strategy::check_jupiter_sell_etherfuse_buy_opportunity up to the loop
BisectSellStart ==
    /\ pc = "start" /\ variant = "bisect_jupiter_sell_etherfuse_buy"
    /\ max_amount' = MaxUsdcToPurchase(md)
    /\ left' = MIN_USDC_AMOUNT
    /\ right' = MaxUsdcToPurchase(md)
    /\ pc' = "head"
    /\ UNCHANGED <<limiter, cycle, bundle, builder, math, tipping, variant, md, built, idx, usdc_amount, stablebond_amount, retries,
                   best, txs, result, history>>

\* `while left <= right`: the midpoint, then the rate limiter
BisectHead ==
    /\ pc = "head" /\ variant \in BisectVariants
    /\ IF left <= right
       THEN /\ usdc_amount' = mid_usdc(left, right)
            /\ stablebond_amount' = StablebondFor(mid_usdc(left, right),
                                                  md.etherfuse_price_per_token)
            /\ idx' = idx + 1
            /\ attempts' = 0
            /\ pc' = "acquire"
       ELSE /\ pc' = "finish"
            /\ UNCHANGED <<idx, usdc_amount, stablebond_amount, attempts>>
    /\ UNCHANGED <<limiter, cycle, bundle, builder, math, tipping, variant, md, built, max_amount, left, right, retries,
                   best, txs, result, quoted, gave_up, evaluated, acquired, in_flight>>

\* rate_limiter.wait_if_needed() returns and the quote request is issued
BisectAcquire ==
    /\ pc = "acquire" /\ variant \in BisectVariants
    /\ acquired' = TRUE
    /\ attempts' = Min(attempts + 1, MaxAttempts)
    /\ in_flight' = in_flight + 1
    /\ pc' = "quote"
    /\ UNCHANGED <<limiter, cycle, bundle, builder, math, tipping, variant, md, built, search, best, txs, result, quoted, gave_up, evaluated>>

\* the quote arrives: a better midpoint moves left up, any other moves right down
BisectQuoteOk ==
    /\ pc = "quote" /\ variant \in BisectVariants
    /\ \E p \in RouterPrices :
         LET q == RouterQuote(variant, QuoteAmount(variant, usdc_amount, stablebond_amount), p)
             potential_profit ==
                 profit_from_arb(QuotePrice(variant, q), md.etherfuse_price_per_token,
                                 stablebond_amount)
         IN  /\ Evaluate(q)
             /\ IF Improves(potential_profit, best_profit)
                THEN left' = usdc_amount + 1 /\ UNCHANGED right
                ELSE right' = usdc_amount - 1 /\ UNCHANGED left
    /\ pc' = "head"
    /\ acquired' = FALSE /\ in_flight' = in_flight - 1
    /\ UNCHANGED <<limiter, cycle, bundle, builder, math, tipping, variant, md, built, max_amount, idx, usdc_amount, stablebond_amount,
                   retries, txs, result, attempts, gave_up>>

\* the quote arrives and profit_from_arb fails on it: the `?` returns the error
BisectQuoteMathErr ==
    /\ pc = "quote" /\ variant \in BisectVariants
    /\ LET q == DegenerateQuote(variant, QuoteAmount(variant, usdc_amount, stablebond_amount))
           price == QuotePrice(variant, q)
       IN  /\ profit_from_arb_is_err(price, md.etherfuse_price_per_token, stablebond_amount)
           /\ quoted' = quoted \cup {price}
    /\ Return(Err("Math overflow"))
    /\ acquired' = FALSE /\ in_flight' = in_flight - 1
    /\ UNCHANGED <<limiter, cycle, bundle, builder, math, tipping, variant, md, built, search, best, txs, attempts,
                   gave_up, evaluated>>

\* the quote request fails: the rate limiter again, then the same request,
\* without a limit in the code
BisectQuoteErr ==
    /\ pc = "quote" /\ variant \in BisectVariants
    /\ acquired' = FALSE /\ in_flight' = in_flight - 1
    /\ pc' = "acquire"
    /\ UNCHANGED <<limiter, cycle, bundle, builder, math, tipping, variant, md, built, search, best, txs, result, attempts, quoted, gave_up,
                   evaluated>>

\* after the loop the transactions are built, the swap from
\* best_quote.unwrap(): without a best quote the unwrap panics when the
\* call of jupiter_swap_tx is reached, which is at once when the swap is
\* the first leg and after the issuer purchase was built when it is the second
UnwrapFinish ==
    IF best_quote = NoQuote
    THEN \E oracle_ok \in BOOLEAN, first_ok \in BOOLEAN :
           /\ txs' = AssembleTxs(oracle_ok, FALSE, Legs(variant))
           /\ IF Legs(variant)[1] = "jupiter_swap"
              THEN /\ built' = <<BuilderCall("update_oracle", NoQuote, oracle_ok)>>
                   /\ Return(Panic)
              ELSE /\ built' = <<BuilderCall("update_oracle", NoQuote, oracle_ok),
                                 BuilderCall(Legs(variant)[1], NoQuote, first_ok)>>
                   /\ Return(IF first_ok THEN Panic ELSE Ok(best_profit))
    ELSE \E oracle_ok \in BOOLEAN, first_ok \in BOOLEAN, second_ok \in BOOLEAN :
           /\ txs' = AssembleTxs(oracle_ok, first_ok /\ second_ok, Legs(variant))
           /\ built' = BuilderCalls(oracle_ok, first_ok, second_ok, Legs(variant),
                                    best_quote)
           /\ Return(Ok(best_profit))

BisectFinish ==
    /\ pc = "finish" /\ variant \in BisectVariants
    /\ UnwrapFinish
    /\ UNCHANGED <<limiter, cycle, bundle, builder, math, tipping, variant, md, search, best, history>>

(***************************************************************************)
(* run.rs: geometric shrink                                                *)
(***************************************************************************)
\* ArbitrageEngine::check_jupiter_buy_etherfuse_sell_opportunity up to the loop
ShrinkBuyStart ==
    /\ pc = "start" /\ variant = "shrink_jupiter_buy_etherfuse_sell"
    /\ max_amount' = MaxUsdcToRedeem(md)
    /\ usdc_amount' = MaxUsdcToRedeem(md)
    /\ stablebond_amount' = StablebondFor(MaxUsdcToRedeem(md), md.etherfuse_price_per_token)
    /\ pc' = "head"
    /\ UNCHANGED <<limiter, cycle, bundle, builder, math, tipping, variant, md, built, idx, left, right, retries, best, txs, result, history>>

\* ArbitrageEngine::check_jupiter_sell_etherfuse_buy_opportunity up to the loop
ShrinkSellStart ==
    /\ pc = "start" /\ variant = "shrink_jupiter_sell_etherfuse_buy"
    /\ max_amount' = MaxUsdcToPurchase(md)
    /\ usdc_amount' = MaxUsdcToPurchase(md)
    /\ stablebond_amount' = StablebondFor(MaxUsdcToPurchase(md), md.etherfuse_price_per_token)
    /\ pc' = "head"
    /\ UNCHANGED <<limiter, cycle, bundle, builder, math, tipping, variant, md, built, idx, left, right, retries, best, txs, result, history>>

\* `while max_usdc_token_amount > MIN_USDC_AMOUNT`: the rate limiter for
\* the current size
ShrinkHead ==
    /\ pc = "head" /\ variant \in ShrinkVariants
    /\ IF usdc_amount > MIN_USDC_AMOUNT
       THEN pc' = "acquire" /\ attempts' = 0
       ELSE pc' = "finish" /\ UNCHANGED attempts
    /\ UNCHANGED <<limiter, cycle, bundle, builder, math, tipping, variant, md, built, search, best, txs, result, quoted, gave_up, evaluated,
                   acquired, in_flight>>

\* rate_limiter.wait_if_needed() returns and the quote request is issued
ShrinkAcquire ==
    /\ pc = "acquire" /\ variant \in ShrinkVariants
    /\ acquired' = TRUE
    /\ attempts' = Min(attempts + 1, MaxAttempts)
    /\ in_flight' = in_flight + 1
    /\ pc' = "quote"
    /\ UNCHANGED <<limiter, cycle, bundle, builder, math, tipping, variant, md, built, search, best, txs, result, quoted, gave_up, evaluated>>

\* the quote arrives: the size is evaluated, then both amounts shrink to 80%
ShrinkQuoteOk ==
    /\ pc = "quote" /\ variant \in ShrinkVariants
    /\ \E p \in RouterPrices :
         Evaluate(RouterQuote(variant, QuoteAmount(variant, usdc_amount, stablebond_amount), p))
    /\ usdc_amount' = Shrink80(usdc_amount)
    /\ stablebond_amount' = Shrink80(stablebond_amount)
    /\ pc' = "head"
    /\ acquired' = FALSE /\ in_flight' = in_flight - 1
    /\ UNCHANGED <<limiter, cycle, bundle, builder, math, tipping, variant, md, built, max_amount, idx, left, right, retries, txs, result,
                   attempts, gave_up>>

\* the quote arrives and profit_from_arb fails on it: the `?` returns the error
ShrinkQuoteMathErr ==
    /\ pc = "quote" /\ variant \in ShrinkVariants
    /\ LET q == DegenerateQuote(variant, QuoteAmount(variant, usdc_amount, stablebond_amount))
           price == QuotePrice(variant, q)
       IN  /\ profit_from_arb_is_err(price, md.etherfuse_price_per_token, stablebond_amount)
           /\ quoted' = quoted \cup {price}
    /\ Return(Err("Math overflow"))
    /\ acquired' = FALSE /\ in_flight' = in_flight - 1
    /\ UNCHANGED <<limiter, cycle, bundle, builder, math, tipping, variant, md, built, search, best, txs, attempts,
                   gave_up, evaluated>>

\* the quote request fails: the rate limiter again, then the same request,
\* without a limit in the code
ShrinkQuoteErr ==
    /\ pc = "quote" /\ variant \in ShrinkVariants
    /\ acquired' = FALSE /\ in_flight' = in_flight - 1
    /\ pc' = "acquire"
    /\ UNCHANGED <<limiter, cycle, bundle, builder, math, tipping, variant, md, built, search, best, txs, result, attempts, quoted, gave_up,
                   evaluated>>

ShrinkFinish ==
    /\ pc = "finish" /\ variant \in ShrinkVariants
    /\ UnwrapFinish
    /\ UNCHANGED <<limiter, cycle, bundle, builder, math, tipping, variant, md, search, best, history>>

Next ==
    \/ JupiterSellBuyEtherfuseStart
    \/ BuyEtherfuseSellJupiterStart
    \/ ProbeHead
    \/ ProbeQuoteOk
    \/ ProbeQuoteMathErr
    \/ ProbeQuoteErr
    \/ ProbeFinish
    \/ BisectBuyStart
    \/ BisectSellStart
    \/ BisectHead
    \/ BisectAcquire
    \/ BisectQuoteOk
    \/ BisectQuoteMathErr
    \/ BisectQuoteErr
    \/ BisectFinish
    \/ ShrinkBuyStart
    \/ ShrinkSellStart
    \/ ShrinkHead
    \/ ShrinkAcquire
    \/ ShrinkQuoteOk
    \/ ShrinkQuoteMathErr
    \/ ShrinkQuoteErr
    \/ ShrinkFinish

Spec == Init /\ [][Next]_vars

\* every step of a search is taken in the end: the calls it awaits return
FairSpec == Spec /\ WF_vars(Next)

\* no search is followed
SearchOff ==
    /\ variant = "none" /\ md = Snapshot(100, 0, 0, 0, 0, 0) /\ pc = "off"
    /\ max_amount = 0 /\ idx = 0 /\ left = 0 /\ right = 0
    /\ usdc_amount = 0 /\ stablebond_amount = 0 /\ retries = 0
    /\ best_profit = 0 /\ best_usdc_amount = 0 /\ best_stablebond_amount = 0
    /\ best_quote = NoQuote
    /\ txs = << >> /\ result = NoResult /\ built = << >>
    /\ attempts = 0 /\ quoted = {} /\ gave_up = FALSE
    /\ evaluated = NoneEvaluated
    /\ acquired = FALSE /\ in_flight = 0

(***************************************************************************)
(* rate_limiter.rs: RateLimiter                                            *)
(*                                                                         *)
(* Time is counted in ticks of the clock.  The caller calls wait_if_needed *)
(* sequentially (it holds &mut self), at times of its choice; a sleep ends *)
(* at its deadline or later.                                               *)
(***************************************************************************)
\* RateLimiter::new(window_secs, max_requests) of the model
LimiterWindows == {2}
LimiterMaxRequests == {1, 2}

\* nothing is popped
PruneNothing(q, t, w) == q

\* `while let Some(request_time) = self.requests.front()`: the timestamps
\* older than the window are popped from the front
RECURSIVE Prune(_, _, _)
Prune(q, t, w) ==
    IF q # << >> /\ t - Head(q) > w THEN Prune(Tail(q), t, w) ELSE q

\* the timestamp wait_if_needed pushes, given `now` of its entry and the
\* time at which it returns
Stamp(entered, returned) == entered

LimiterInit ==
    /\ SearchOff /\ CycleOff /\ BundleOff /\ BuilderOff /\ MathOff /\ TippingOff
    /\ clock = 0 /\ requests = << >>
    /\ window \in LimiterWindows /\ max_requests \in LimiterMaxRequests
    /\ now = 0 /\ wake_at = 0 /\ rl_pc = "idle"
    /\ completed = << >> /\ idle_ticks = FALSE

\* time passes, while the caller is between two calls or asleep in one
ClockTick ==
    /\ rl_pc \in {"idle", "sleeping"}
    /\ clock < MaxClock
    /\ clock' = clock + 1
    /\ idle_ticks' = (idle_ticks \/ rl_pc = "idle")
    /\ UNCHANGED <<requests, window, max_requests, now, wake_at, rl_pc, completed>>
    /\ UNCHANGED <<searching, cycle, bundle, builder, math, tipping>>

\* wait_if_needed up to its sleep, or to its end when it does not sleep
WaitIfNeeded ==
    /\ rl_pc = "idle"
    /\ Len(completed) < MaxCalls
    /\ LET pruned == Prune(requests, clock, window)
       IN  /\ now' = clock
           /\ IF Len(pruned) >= max_requests /\ pruned # << >>
              THEN LET wait_time == window - (clock - Head(pruned))
                   IN  /\ requests' = pruned
                       /\ wake_at' = clock + wait_time
                       /\ rl_pc' = "sleeping"
                       /\ UNCHANGED completed
              ELSE /\ requests' = Append(pruned, Stamp(clock, clock))
                   /\ completed' = Append(completed, clock)
                   /\ UNCHANGED <<wake_at, rl_pc>>
    /\ UNCHANGED <<clock, window, max_requests, idle_ticks>>
    /\ UNCHANGED <<searching, cycle, bundle, builder, math, tipping>>

\* the sleep is over: the timestamp is pushed and wait_if_needed returns
WaitIfNeededWake ==
    /\ rl_pc = "sleeping"
    /\ clock >= wake_at
    /\ requests' = Append(requests, Stamp(now, clock))
    /\ completed' = Append(completed, clock)
    /\ rl_pc' = "idle"
    /\ UNCHANGED <<clock, window, max_requests, now, wake_at, idle_ticks>>
    /\ UNCHANGED <<searching, cycle, bundle, builder, math, tipping>>

LimiterNext ==
    \/ ClockTick
    \/ WaitIfNeeded
    \/ WaitIfNeededWake

LimiterSpec == LimiterInit /\ [][LimiterNext]_vars

(***************************************************************************)
(* run.rs: Arber::run, Arber::check_arb, ArbitrageEngine::run_strategies   *)
(* trading_engine.rs: TradingEngine::run, Strategy::run_strategies         *)
(*                                                                         *)
(* The two files hold the same loop: every interval tick the snapshot is   *)
(* fetched, the two searches run one after the other, and the results are  *)
(* sorted by profit.  A search is represented by what it returns.          *)
(***************************************************************************)
StrategyOrder == <<"check_jupiter_buy_etherfuse_sell_opportunity",
                   "check_jupiter_sell_etherfuse_buy_opportunity">>

\* what a search may return to run_strategies
StrategyOutcomes == {Ok(p) : p \in 0..MaxProfit} \cup {Err("Math overflow"), Panic}

\* sorted_by(|a, b| b.profit.partial_cmp(&a.profit).unwrap()): a result is
\* moved ahead of another one only when its profit is strictly greater
PrecedesOrTies(a, b) == a.profit >= b.profit
Precedes(a, b) == a.profit > b.profit

\* the stable sort of sorted_by, as the insertion of the results in order
RECURSIVE InsertSorted(_, _)
InsertSorted(sorted, r) ==
    IF sorted = << >> THEN <<r>>
    ELSE IF Precedes(r, Head(sorted)) THEN <<r>> \o sorted
    ELSE <<Head(sorted)>> \o InsertSorted(Tail(sorted), r)

RECURSIVE sorted_by(_)
sorted_by(rs) ==
    IF rs = << >> THEN << >>
    ELSE InsertSorted(sorted_by(SubSeq(rs, 1, Len(rs) - 1)), rs[Len(rs)])

\* tokio::time::interval: the first tick is ready at once
CycleInit ==
    /\ SearchOff /\ LimiterOff /\ BundleOff /\ BuilderOff /\ MathOff /\ TippingOff
    /\ cy_pc = "tick" /\ results = << >> /\ outcomes = << >>
    /\ best_strategy = NoStrategyResult /\ cycles = 0 /\ run_result = "running"
    /\ tick_due = TRUE /\ overran = FALSE /\ running = 0

\* the run function is left: by `?` with an error, or by a panic
Exit(how) ==
    /\ cy_pc' = "exited"
    /\ run_result' = how
    /\ running' = running - 1

\* the loop is at interval.tick().await: check_arb has returned (or was not
\* called yet)
AwaitingTickAnywhere == cy_pc \in {"tick", "fetch", "first", "second", "select"}
AwaitingTick == cy_pc = "tick"

\* two minutes have passed since the last tick became ready, whatever the
\* loop is doing
IntervalElapses ==
    /\ cy_pc \notin {"off", "exited"}
    /\ ~tick_due
    /\ tick_due' = TRUE
    /\ overran' = (overran \/ cy_pc # "tick")
    /\ UNCHANGED <<cy_pc, results, outcomes, best_strategy, cycles, run_result, running>>
    /\ UNCHANGED <<searching, limiter, bundle, builder, math, tipping>>

\* interval.tick().await returns: a cycle starts
IntervalTick ==
    /\ AwaitingTick
    /\ tick_due
    /\ cycles < MaxCycles
    /\ cycles' = cycles + 1
    /\ results' = << >> /\ outcomes' = << >>
    /\ cy_pc' = "fetch"
    /\ tick_due' = FALSE
    /\ running' = running + 1
    /\ UNCHANGED <<best_strategy, run_result, overran>>
    /\ UNCHANGED <<searching, limiter, bundle, builder, math, tipping>>

\* the price, the two balances and the sell liquidity are fetched, each `?`
FetchSnapshot ==
    /\ cy_pc = "fetch"
    /\ \E fetched \in BOOLEAN :
         IF fetched THEN cy_pc' = "first" /\ UNCHANGED <<run_result, running>>
         ELSE Exit("err")
    /\ UNCHANGED <<results, outcomes, best_strategy, cycles, tick_due, overran>>
    /\ UNCHANGED <<searching, limiter, bundle, builder, math, tipping>>

\* results.push(self.check_..._opportunity(args.clone()).await?)
RunStrategy(n, o, after) ==
    /\ outcomes' = Append(outcomes, o)
    /\ IF o.kind = "ok"
       THEN /\ results' = Append(results, [by |-> StrategyOrder[n], profit |-> o.profit])
            /\ cy_pc' = after
            /\ UNCHANGED <<run_result, running>>
       ELSE /\ Exit(o.kind)
            /\ UNCHANGED results

FirstStrategy ==
    /\ cy_pc = "first"
    /\ \E o \in StrategyOutcomes : RunStrategy(1, o, "second")
    /\ UNCHANGED <<best_strategy, cycles, tick_due, overran>>
    /\ UNCHANGED <<searching, limiter, bundle, builder, math, tipping>>

SecondStrategy ==
    /\ cy_pc = "second"
    /\ \E o \in StrategyOutcomes : RunStrategy(2, o, "select")
    /\ UNCHANGED <<best_strategy, cycles, tick_due, overran>>
    /\ UNCHANGED <<searching, limiter, bundle, builder, math, tipping>>

\* .into_iter().sorted_by(..).next().unwrap(), then the cycle is over
SelectBest ==
    /\ cy_pc = "select"
    /\ IF results = << >>
       THEN Exit("panic") /\ UNCHANGED best_strategy
       ELSE /\ best_strategy' = Head(sorted_by(results))
            /\ cy_pc' = "tick"
            /\ running' = running - 1
            /\ UNCHANGED run_result
    /\ UNCHANGED <<results, outcomes, cycles, tick_due, overran>>
    /\ UNCHANGED <<searching, limiter, bundle, builder, math, tipping>>

CycleNext ==
    \/ IntervalElapses
    \/ IntervalTick
    \/ FetchSnapshot
    \/ FirstStrategy
    \/ SecondStrategy
    \/ SelectBest

CycleSpec == CycleInit /\ [][CycleNext]_vars

(***************************************************************************)
(* jito.rs: JitoClient::send_bundle and JitoClient::check_bundle_status    *)
(*                                                                         *)
(* Time is counted in seconds since check_bundle_status took start_time.   *)
(***************************************************************************)
\* `timeout` and the sleep between two polls, in seconds
timeout == 30
PollSleepSecs == 1

\* the transaction send_bundle builds from tip_ix
tip_tx == "tip_tx"

\* the txs a caller may pass: the txs of a StrategyResult
CallerTxs ==
    {AssembleTxs(oracle_ok, legs_ok, Legs(v)) :
        oracle_ok \in BOOLEAN, legs_ok \in BOOLEAN, v \in ProbeVariants}

\* [txs, &[tip_tx]].concat()
BundleTipFirst(given, tip) == <<tip>> \o given
Bundle(given, tip) == given \o <<tip>>

\* what a getInflightBundleStatuses request may bring: an error, no
\* response, an empty value list, or a first status, "Other" being any
\* status string the match does not name
PollAnswers == {"error", "no_response", "empty", "Landed", "Failed", "Pending", "Invalid", "Other"}

\* match status.status.as_str(): the BundleStatusEnum returned, or
\* "continue" for the arm that sleeps and polls again
MappedLandedContinues(status) ==
    IF status = "Failed" THEN "Failed"
    ELSE IF status \in {"Landed", "Pending", "Invalid"} THEN "continue"
    ELSE "Unknown"
MappedInvalidUnknown(status) ==
    IF status = "Landed" THEN "Landed"
    ELSE IF status = "Failed" THEN "Failed"
    ELSE IF status \in {"Pending"} THEN "continue"
    ELSE "Unknown"
Mapped(status) ==
    IF status = "Landed" THEN "Landed"
    ELSE IF status = "Failed" THEN "Failed"
    ELSE IF status \in {"Pending", "Invalid"} THEN "continue"
    ELSE "Unknown"

\* start_time.elapsed() after a sleep begun at t and ended `late` seconds
\* after its time
AfterSleepNoTime(t, late) == t
AfterSleep(t, late) == t + PollSleepSecs + late

\* what send_bundle returns after it has reported the outcome of the bundle
SendBundleResultPropagating(outcome) ==
    IF outcome \in {"Err", "SendError"} THEN "Err" ELSE "Ok"
SendBundleResult(outcome) == "Ok"

\* where send_bundle goes after the report: to its end
AfterReportResubmit(outcome) ==
    IF outcome \in {"Failed", "Timeout", "SendError"} THEN "submit" ELSE "done"
AfterReport(outcome) == "done"

BundleInit ==
    /\ SearchOff /\ LimiterOff /\ CycleOff /\ BuilderOff /\ MathOff /\ TippingOff
    /\ jt_pc = "start" /\ caller_txs \in CallerTxs /\ submitted = << >>
    /\ elapsed = 0 /\ polls = 0 /\ seen = {} /\ last_status = "none"
    /\ status_result = "none" /\ send_result = "none"

\* get_jito_tip, getTipAccounts and build_and_sign_tx, each `?`; tippers[0]
\* and the parse of the tip account panic on a bad answer
PrepareTip ==
    /\ jt_pc = "start"
    /\ \E prepared \in {"ok", "err", "panic"} :
         IF prepared = "ok" THEN jt_pc' = "submit" /\ UNCHANGED send_result
         ELSE jt_pc' = "done" /\ send_result' = (IF prepared = "err" THEN "Err" ELSE "panic")
    /\ UNCHANGED <<caller_txs, submitted, elapsed, polls, seen, last_status, status_result>>
    /\ UNCHANGED <<searching, limiter, cycle, builder, math, tipping>>

\* the sendBundle request: accepted, check_bundle_status starts; rejected,
\* the error is to be printed
SubmitBundle ==
    /\ jt_pc = "submit"
    /\ submitted' = Append(submitted, Bundle(caller_txs, tip_tx))
    /\ \E accepted \in BOOLEAN :
         IF accepted
         THEN /\ jt_pc' = "poll"
              /\ elapsed' = 0 /\ polls' = 0 /\ seen' = {} /\ last_status' = "none"
              /\ status_result' = "none"
         ELSE /\ jt_pc' = "report"
              /\ status_result' = "SendError"
              /\ UNCHANGED <<elapsed, polls, seen, last_status>>
    /\ UNCHANGED <<caller_txs, send_result>>
    /\ UNCHANGED <<searching, limiter, cycle, builder, math, tipping>>

\* check_bundle_status returns r to send_bundle
StatusReturn(r) ==
    /\ status_result' = r
    /\ jt_pc' = "report"

\* `while start_time.elapsed() < timeout`: one status request and the match
\* on its answer, up to the sleep or the return
PollStatus ==
    /\ jt_pc = "poll"
    /\ IF elapsed < timeout
       THEN \E took \in 0..MaxRequestSecs, answer \in PollAnswers :
              /\ polls' = polls + 1
              /\ elapsed' = elapsed + took
              /\ last_status' = answer
              /\ IF answer = "error" THEN StatusReturn("Err") /\ UNCHANGED seen
                 ELSE IF answer \in {"no_response", "empty"}
                 THEN /\ jt_pc' = "sleep" /\ seen' = seen \cup {answer}
                      /\ UNCHANGED status_result
                 ELSE IF Mapped(answer) = "continue"
                 THEN /\ jt_pc' = "sleep_pending" /\ seen' = seen \cup {answer}
                      /\ UNCHANGED status_result
                 ELSE StatusReturn(Mapped(answer)) /\ UNCHANGED seen
       ELSE /\ StatusReturn("Timeout")
            /\ UNCHANGED <<elapsed, polls, seen, last_status>>
    /\ UNCHANGED <<caller_txs, submitted, send_result>>
    /\ UNCHANGED <<searching, limiter, cycle, builder, math, tipping>>

\* tokio::time::sleep(1 s) is over; after a Pending or Invalid status the
\* timeout is tested at once
PollSleep ==
    /\ jt_pc \in {"sleep", "sleep_pending"}
    /\ \E late \in 0..MaxOversleep :
         /\ elapsed' = AfterSleep(elapsed, late)
         /\ IF jt_pc = "sleep_pending" /\ AfterSleep(elapsed, late) >= timeout
            THEN StatusReturn("Timeout")
            ELSE jt_pc' = "poll" /\ UNCHANGED status_result
    /\ UNCHANGED <<caller_txs, submitted, polls, seen, last_status, send_result>>
    /\ UNCHANGED <<searching, limiter, cycle, builder, math, tipping>>

\* the outcome is printed and send_bundle comes to its end, Ok(())
ReportOutcome ==
    /\ jt_pc = "report"
    /\ jt_pc' = AfterReport(status_result)
    /\ send_result' = SendBundleResult(status_result)
    /\ UNCHANGED <<caller_txs, submitted, elapsed, polls, seen, last_status, status_result>>
    /\ UNCHANGED <<searching, limiter, cycle, builder, math, tipping>>

BundleNext ==
    \/ PrepareTip
    \/ SubmitBundle
    \/ PollStatus
    \/ PollSleep
    \/ ReportOutcome

BundleSpec == BundleInit /\ [][BundleNext]_vars

\* every request is answered and every sleep ends
BundleFairSpec == BundleSpec /\ WF_vars(BundleNext)

(***************************************************************************)
(* The snapshot builder (market_data.rs)                                   *)
(*                                                                         *)
(* One behaviour of BuilderSpec is one MarketDataBuilder from new() to     *)
(* build(): the caller chains the with_X steps it wants, each at most once *)
(* and in any order, and then calls build().  Every step awaits one fetch, *)
(* which answers with a value or with an error.  A step that unwraps the   *)
(* Result of its fetch panics on the error: the builder is dropped and     *)
(* build() is never reached.                                               *)
(***************************************************************************)
\* Result::unwrap_or
unwrap_or(r, default) == IF r = FetchErr THEN default ELSE r

HoldingsUnclamped(balance, ceiling) == unwrap_or(balance, 0)

\* min(balance.unwrap_or(0), ceiling)
Holdings(balance, ceiling) == Min(unwrap_or(balance, 0), ceiling)

\* what the fetch of a liquidity amount or of the tip answers
Fetched == {FetchErr, 0, 1}
\* what the fetch of a wallet balance answers: an error, an empty or nearly
\* empty account, and balances around the ceiling
Balances(ceiling) == {FetchErr, 0, 1} \cup ((ceiling - 1) .. (ceiling + MaxExcess))

BuilderInit ==
    /\ SearchOff /\ LimiterOff /\ CycleOff /\ BundleOff /\ MathOff /\ TippingOff
    /\ bd_pc = "building" /\ mb = NewBuilder /\ mb_failed = {}
    /\ mb_balance = [stablebond |-> NONE, usdc |-> NONE]
    /\ snapshot = NewBuilder

\* self.field = Some(value)
StoreSome(field, value) ==
    /\ mb' = [mb EXCEPT ![field] = value]
    /\ bd_pc' = bd_pc

\* self.field = Some(fetch.unwrap()): the error of the fetch is a panic
StoreUnwrap(field, r) ==
    IF r = FetchErr
    THEN /\ bd_pc' = "aborted"
         /\ mb' = mb
         /\ mb_failed' = mb_failed \cup {field}
    ELSE /\ StoreSome(field, r)
         /\ mb_failed' = mb_failed

\* self.field = Some(fetch.unwrap_or(0))
StoreUnwrapOr(field, r) ==
    /\ StoreSome(field, unwrap_or(r, 0))
    /\ mb_failed' = IF r = FetchErr THEN mb_failed \cup {field} ELSE mb_failed

\* self.field = Some(min(balance.unwrap_or(0), ceiling))
StoreHoldings(field, wallet, r, ceiling) ==
    /\ StoreSome(field, Holdings(r, ceiling))
    /\ mb_failed' = IF r = FetchErr THEN mb_failed \cup {field} ELSE mb_failed
    /\ mb_balance' = [mb_balance EXCEPT ![wallet] = r]

\* the step has not been chained yet
Chainable(field) == bd_pc = "building" /\ mb[field] = NONE

with_etherfuse_price_per_token ==
    /\ Chainable("etherfuse_price_per_token")
    /\ \E r \in IssuerPrices \cup {FetchErr} :
           StoreUnwrap("etherfuse_price_per_token", r)
    /\ UNCHANGED <<mb_balance, snapshot>>
    /\ UNCHANGED <<searching, limiter, cycle, bundle, math, tipping>>

with_sell_liquidity_usdc_amount ==
    /\ Chainable("sell_liquidity_usdc_amount")
    /\ \E r \in Fetched : StoreUnwrapOr("sell_liquidity_usdc_amount", r)
    /\ UNCHANGED <<mb_balance, snapshot>>
    /\ UNCHANGED <<searching, limiter, cycle, bundle, math, tipping>>

with_purchase_liquidity_stablebond_amount ==
    /\ Chainable("purchase_liquidity_stablebond_amount")
    /\ \E r \in Fetched :
           StoreUnwrapOr("purchase_liquidity_stablebond_amount", r)
    /\ UNCHANGED <<mb_balance, snapshot>>
    /\ UNCHANGED <<searching, limiter, cycle, bundle, math, tipping>>

with_stablebond_holdings_token_amount ==
    /\ Chainable("stablebond_holdings_token_amount")
    /\ \E r \in Balances(MAX_STABLEBOND_AMOUNT_PER_TRADE) :
           StoreHoldings("stablebond_holdings_token_amount", "stablebond", r,
                         MAX_STABLEBOND_AMOUNT_PER_TRADE)
    /\ UNCHANGED snapshot
    /\ UNCHANGED <<searching, limiter, cycle, bundle, math, tipping>>

with_usdc_holdings_token_amount ==
    /\ Chainable("usdc_holdings_token_amount")
    /\ \E r \in Balances(MAX_USDC_AMOUNT_PER_TRADE) :
           StoreHoldings("usdc_holdings_token_amount", "usdc", r,
                         MAX_USDC_AMOUNT_PER_TRADE)
    /\ UNCHANGED snapshot
    /\ UNCHANGED <<searching, limiter, cycle, bundle, math, tipping>>

with_jito_tip ==
    /\ Chainable("jito_tip")
    /\ \E r \in Fetched : StoreUnwrap("jito_tip", r)
    /\ UNCHANGED <<mb_balance, snapshot>>
    /\ UNCHANGED <<searching, limiter, cycle, bundle, math, tipping>>

\* fetch_payment_feed and get_update_switchboard_oracle_tx are both unwrapped;
\* 1 stands for the transaction
with_update_switchboard_oracle_tx ==
    /\ Chainable("switchboard_update_tx")
    /\ \E r \in {FetchErr, 1} : StoreUnwrap("switchboard_update_tx", r)
    /\ UNCHANGED <<mb_balance, snapshot>>
    /\ UNCHANGED <<searching, limiter, cycle, bundle, math, tipping>>

build ==
    /\ bd_pc = "building"
    /\ snapshot' = mb
    /\ bd_pc' = "built"
    /\ UNCHANGED <<mb, mb_failed, mb_balance>>
    /\ UNCHANGED <<searching, limiter, cycle, bundle, math, tipping>>

BuilderNext ==
    \/ with_etherfuse_price_per_token
    \/ with_sell_liquidity_usdc_amount
    \/ with_purchase_liquidity_stablebond_amount
    \/ with_stablebond_holdings_token_amount
    \/ with_usdc_holdings_token_amount
    \/ with_jito_tip
    \/ with_update_switchboard_oracle_tx
    \/ build

BuilderSpec == BuilderInit /\ [][BuilderNext]_vars

(***************************************************************************)
(* The checked arithmetic (math.rs)                                        *)
(*                                                                         *)
(* One behaviour of MathSpec is one call of one function.  The word of the *)
(* program has 64 bits and its f64 a significand of 53 bits; here the word *)
(* has WordBits bits and a float a significand of MantBits bits, fewer     *)
(* than the word as in the program.  A float is [m, e], of value m * 2^e,  *)
(* with m < 2^MantBits; every operation on floats returns the float        *)
(* nearest to the exact result, ties to the even significand.  The         *)
(* exponent is not bounded: no operation of the model leaves the finite    *)
(* range.                                                                  *)
(***************************************************************************)
RECURSIVE Pow(_, _)
Pow(b, n) == IF n = 0 THEN 1 ELSE b * Pow(b, n - 1)

U64_MAX == Pow(2, WordBits) - 1
MantBits == WordBits - 2
\* the decimals whose power of ten is a word and a float
DecimalsRange == {d \in 0..WordBits : Pow(10, d) <= U64_MAX /\ Pow(10, d) % Pow(5, d) = 0
                                      /\ Pow(5, d) < Pow(2, MantBits)}

MathOk(x) == [ok |-> TRUE, val |-> x]
\* Err(anyhow!("Math overflow"))
MathOverflow == [ok |-> FALSE, val |-> 0]

\* u64::checked_mul taken modulo the word
checked_mul_wrapping(a, b) == MathOk((a * b) % (U64_MAX + 1))

checked_mul(a, b) == IF a * b > U64_MAX THEN MathOverflow ELSE MathOk(a * b)
checked_add(a, b) == IF a + b > U64_MAX THEN MathOverflow ELSE MathOk(a + b)
checked_sub(a, b) == IF a - b < 0 THEN MathOverflow ELSE MathOk(a - b)
checked_div(a, b) == IF b = 0 THEN MathOverflow ELSE MathOk(a \div b)

\* num / den rounded to the nearest integer, ties to even
RoundHalfEven(num, den) ==
    LET q == num \div den
        r == num % den
    IN  IF 2 * r > den \/ (2 * r = den /\ q % 2 = 1) THEN q + 1 ELSE q

\* the exact numerator and denominator of a float
Num(f) == IF f.e >= 0 THEN f.m * Pow(2, f.e) ELSE f.m
Den(f) == IF f.e >= 0 THEN 1 ELSE Pow(2, 0 - f.e)

\* the float nearest to num / den
RoundToFloat(num, den) ==
    IF num = 0 THEN [m |-> 0, e |-> 0]
    ELSE LET Scaled(e) == IF e >= 0 THEN <<num, den * Pow(2, e)>>
                          ELSE <<num * Pow(2, 0 - e), den>>
             e0 == CHOOSE e \in (0 - 3 * WordBits)..(2 * WordBits) :
                      /\ Pow(2, MantBits - 1) * Scaled(e)[2] <= Scaled(e)[1]
                      /\ Scaled(e)[1] < Pow(2, MantBits) * Scaled(e)[2]
             m0 == RoundHalfEven(Scaled(e0)[1], Scaled(e0)[2])
         IN  IF m0 = Pow(2, MantBits)
             THEN [m |-> Pow(2, MantBits - 1), e |-> e0 + 1]
             ELSE [m |-> m0, e |-> e0]

\* num_traits::NumCast from u64 to f64
checked_as_f64(n) == RoundToFloat(n, 1)

\* num_traits::NumCast from f64 to u64: truncation, None outside the word
checked_as_u64(f) ==
    LET t == Num(f) \div Den(f)
    IN  IF t > U64_MAX THEN MathOverflow ELSE MathOk(t)

checked_float_mul(a, b) == RoundToFloat(Num(a) * Num(b), Den(a) * Den(b))
checked_float_div(a, b) == RoundToFloat(Num(a) * Den(b), Den(a) * Num(b))

\* checked_powi(10.0, decimals)
checked_powi(d) ==
    IF d > 0 THEN RoundToFloat(Pow(10, d), 1)
    ELSE checked_float_div(RoundToFloat(1, 1), RoundToFloat(Pow(10, 0 - d), 1))

to_ui_amount(amount, d) == checked_float_div(checked_as_f64(amount), checked_powi(d))
to_token_amount(ui_amount, d) == checked_as_u64(checked_float_mul(ui_amount, checked_powi(d)))

MathInit ==
    /\ SearchOff /\ LimiterOff /\ CycleOff /\ BundleOff /\ BuilderOff /\ TippingOff
    /\ m_pc = "ready"
    /\ arg1 \in 0..U64_MAX /\ arg2 \in 0..U64_MAX
    /\ decimals \in DecimalsRange
    /\ m_op = "none" /\ m_out = MathOk(0)

\* the call returns
Returns(op, out) ==
    /\ m_pc' = "done" /\ m_op' = op /\ m_out' = out
    /\ UNCHANGED <<arg1, arg2, decimals>>

CheckedMul ==
    /\ m_pc = "ready"
    /\ Returns("checked_mul", checked_mul(arg1, arg2))
    /\ UNCHANGED <<searching, limiter, cycle, bundle, builder, tipping>>

CheckedAdd ==
    /\ m_pc = "ready"
    /\ Returns("checked_add", checked_add(arg1, arg2))
    /\ UNCHANGED <<searching, limiter, cycle, bundle, builder, tipping>>

CheckedSub ==
    /\ m_pc = "ready"
    /\ Returns("checked_sub", checked_sub(arg1, arg2))
    /\ UNCHANGED <<searching, limiter, cycle, bundle, builder, tipping>>

CheckedDiv ==
    /\ m_pc = "ready"
    /\ Returns("checked_div", checked_div(arg1, arg2))
    /\ UNCHANGED <<searching, limiter, cycle, bundle, builder, tipping>>

\* to_token_amount(to_ui_amount(raw_amount, decimals), decimals)
RoundTrip ==
    /\ m_pc = "ready"
    /\ Returns("round_trip", to_token_amount(to_ui_amount(arg1, decimals), decimals))
    /\ UNCHANGED <<searching, limiter, cycle, bundle, builder, tipping>>

MathNext ==
    \/ CheckedMul
    \/ CheckedAdd
    \/ CheckedSub
    \/ CheckedDiv
    \/ RoundTrip

MathSpec == MathInit /\ [][MathNext]_vars

(***************************************************************************)
(* The tip cache of the TestArb command (main.rs)                          *)
(*                                                                         *)
(* main() creates the tip as Arc<RwLock<u64>> holding 0.  With use_jito it *)
(* spawns a task that stores in it the tip of every item of the tip        *)
(* stream, under the write guard.  For TestArb the main task then reads    *)
(* the tip under the read guard every second until it is not 0, and only   *)
(* then builds its two transactions and sends the bundle.                  *)
(***************************************************************************)
\* (item.ema_landed_tips_50th_percentile * 10^9) as u64: 0 for a value
\* under one lamport
StreamTips == 0..MaxTip

\* `while *arber.jito_tip.read().unwrap() == 0`: the loop is left
WaitIsOver(value) == value # 0

TippingInit ==
    /\ SearchOff /\ LimiterOff /\ CycleOff /\ BundleOff /\ BuilderOff /\ MathOff
    /\ use_jito \in BOOLEAN
    /\ jito_tip = 0 /\ tip_lock = "free"
    /\ ws_pc = IF use_jito THEN "next" ELSE "none"
    /\ item = 0 /\ messages = 0
    /\ main_pc = "check" /\ tip_seen = -1 /\ written = {}

\* read.next() yields an item and the task takes the write guard
StreamItem ==
    /\ ws_pc = "next" /\ tip_lock = "free"
    /\ messages < MaxMessages
    /\ \E t \in StreamTips : item' = t
    /\ messages' = messages + 1
    /\ tip_lock' = "write" /\ ws_pc' = "locked"
    /\ UNCHANGED <<use_jito, jito_tip, main_pc, tip_seen, written>>
    /\ UNCHANGED <<searching, limiter, cycle, bundle, builder, math>>

\* *tip = ..., the tip is printed and the guard dropped
WriteTip ==
    /\ ws_pc = "locked"
    /\ jito_tip' = item
    /\ written' = written \cup {item}
    /\ tip_lock' = "free" /\ ws_pc' = "next"
    /\ UNCHANGED <<use_jito, item, messages, main_pc, tip_seen>>
    /\ UNCHANGED <<searching, limiter, cycle, bundle, builder, math>>

\* read.next() yields None: the stream is closed and the task ends
StreamEnds ==
    /\ ws_pc = "next"
    /\ ws_pc' = "ended"
    /\ UNCHANGED <<use_jito, jito_tip, tip_lock, item, messages, main_pc, tip_seen, written>>
    /\ UNCHANGED <<searching, limiter, cycle, bundle, builder, math>>

\* the condition of the wait loop: the tip is read under the read guard
MainCheck ==
    /\ main_pc = "check" /\ tip_lock # "write"
    /\ tip_seen' = jito_tip
    /\ main_pc' = IF WaitIsOver(jito_tip) THEN "proceed" ELSE "sleep"
    /\ UNCHANGED <<use_jito, jito_tip, tip_lock, ws_pc, item, messages, written>>
    /\ UNCHANGED <<searching, limiter, cycle, bundle, builder, math>>

\* tokio::time::sleep(1 s) is over
MainWake ==
    /\ main_pc = "sleep"
    /\ main_pc' = "check"
    /\ UNCHANGED <<use_jito, jito_tip, tip_lock, ws_pc, item, messages, tip_seen, written>>
    /\ UNCHANGED <<searching, limiter, cycle, bundle, builder, math>>

\* the TestArb arm: swap and purchase transactions, then send_bundle
MainTestArb ==
    /\ main_pc = "proceed"
    /\ main_pc' = "done"
    /\ UNCHANGED <<use_jito, jito_tip, tip_lock, ws_pc, item, messages, tip_seen, written>>
    /\ UNCHANGED <<searching, limiter, cycle, bundle, builder, math>>

StreamNext ==
    \/ StreamItem
    \/ WriteTip
    \/ StreamEnds

MainNext ==
    \/ MainCheck
    \/ MainWake
    \/ MainTestArb

TippingNext ==
    \/ StreamNext
    \/ MainNext

TippingSpec == TippingInit /\ [][TippingNext]_vars

\* both tasks are scheduled: the main task takes its next step and the
\* stream task stores the item it holds; the stream itself owes no item
TippingFairSpec == TippingSpec /\ WF_vars(MainNext) /\ WF_vars(WriteTip)

(***************************************************************************)
(* Scenarios of the router                                                 *)
(***************************************************************************)
\* every quote request so far was answered, and always with the same price
\* p above the issuer price (a candidate given up after MAX_RETRIES failures
\* was not answered)
RouterConstantAbove ==
    /\ ~gave_up
    /\ \E p \in RouterPrices : p > md.etherfuse_price_per_token /\ quoted \subseteq {p}

\* the same, with a price below the issuer price
RouterConstantBelow ==
    /\ ~gave_up
    /\ \E p \in RouterPrices : p < md.etherfuse_price_per_token /\ quoted \subseteq {p}

IssuerLegs == {"etherfuse_purchase", "etherfuse_redeem"}

\* the gross profit of the best candidate, recomputed from its quote
BestGrossProfit ==
    profit_from_arb(QuotePrice(variant, best_quote), md.etherfuse_price_per_token,
                    best_stablebond_amount)

(***************************************************************************)
(* Claims                                                                  *)
(***************************************************************************)

\* C1: in every search variant, a quote request is outstanding only for a
\* candidate whose quote-currency size is at least MIN_USDC_AMOUNT.
C1_QuoteFloor == pc = "quote" => usdc_amount >= MIN_USDC_AMOUNT

\* a probe quotes a point after having skipped a smaller, tiny one
C1_Witness ==
    /\ pc = "quote" /\ variant \in ProbeVariants
    /\ idx > 1 /\ CandidateUsdc(max_amount, 1) < MIN_USDC_AMOUNT

\* C2: the best candidate is the earliest evaluated candidate among those of
\* greatest profit: its size, its quote and its profit are the ones kept,
\* so a later candidate of equal profit never replaces it.
C2_FirstBestWins ==
    best_quote # NoQuote =>
        /\ best_profit = evaluated.max
        /\ best_usdc_amount = evaluated.first_usdc
        /\ best_quote = evaluated.first_quote
        /\ (pc = "done" /\ result.kind = "ok" => result.profit = evaluated.max)

\* a probe returned a winner whose profit a later candidate had equalled
C2_Witness ==
    /\ pc = "done" /\ variant \in ProbeVariants /\ result.kind = "ok"
    /\ evaluated.tie /\ result.profit > 0

\* C3: a search in which no evaluated candidate has a profit above the
\* threshold ends with a failure result (no success, no abort).
C3_NoProfitIsFailure ==
    (pc = "done" /\ (~evaluated.any \/ evaluated.max <= 0)) => result.kind = "err"

\* C4: the reported profit is net of the tip: with a positive tip in the
\* snapshot it is smaller than the gross profit_from_arb of the winner.
C4_NetOfTip ==
    (/\ pc = "done" /\ variant \in ProbeVariants /\ result.kind = "ok"
     /\ md.jito_tip > 0)
        => result.profit < BestGrossProfit

\* C5 as stated: with a router that answers one price above the issuer
\* price, BuyEtherfuseSellJupiter succeeds with the largest candidate.
C5_Original ==
    (/\ pc = "done" /\ variant = "BuyEtherfuseSellJupiter" /\ RouterConstantAbove
     /\ md.usdc_holdings_token_amount # NONE)
        => /\ result.kind = "ok"
           /\ best_usdc_amount = MaxUsdcToPurchase(md)
           /\ result.profit > 0

\* C5 amended: the same, provided the maximum size M reaches MIN_USDC_AMOUNT,
\* so that at least the largest candidate is quoted.
C5_LargestWins ==
    (/\ pc = "done" /\ variant = "BuyEtherfuseSellJupiter" /\ RouterConstantAbove
     /\ max_amount >= MIN_USDC_AMOUNT)
        => /\ result.kind = "ok"
           /\ best_usdc_amount = max_amount
           /\ best_usdc_amount = CandidateUsdc(max_amount, INITIAL_POINTS)
           /\ result.profit > 0

\* several sizes were quoted at one price above the issuer price
C5_Witness ==
    /\ pc = "done" /\ variant = "BuyEtherfuseSellJupiter" /\ RouterConstantAbove
    /\ quoted # {} /\ result.kind = "ok"
    /\ best_usdc_amount = max_amount
    /\ CandidateUsdc(max_amount, INITIAL_POINTS - 1) >= MIN_USDC_AMOUNT

\* C6: with a router that answers one price below the issuer price,
\* BuyEtherfuseSellJupiter fails with "no profitable trade" and
\* JupiterSellBuyEtherfuse succeeds with a positive profit.
C6_RouterBelow ==
    (pc = "done" /\ variant \in ProbeVariants /\ RouterConstantBelow /\ quoted # {})
        => /\ variant = "BuyEtherfuseSellJupiter"
                => result = Err("No profitable trades found")
           /\ variant = "JupiterSellBuyEtherfuse"
                => (result.kind = "ok" /\ result.profit > 0)

\* C7: an oracle update in txs is its first element.
C7_OracleFirst ==
    \A i \in 1..Len(txs) : txs[i] = "update_oracle" => i = 1

\* a result with the oracle update and both legs
C7_Witness ==
    /\ pc = "done" /\ result.kind = "ok" /\ Len(txs) = 3
    /\ txs[1] = "update_oracle" /\ txs[3] \in IssuerLegs

\* C8 as stated: the router transaction precedes the issuer transaction.
C8_Original ==
    \A i, j \in 1..Len(txs) :
        (txs[i] = "jupiter_swap" /\ txs[j] \in IssuerLegs) => i < j

\* C8 amended: the leg that acquires the bond comes first: router swap then
\* redemption when the bond is bought on the router, issuer purchase then
\* router swap when it is bought on the issuer; an oracle update precedes both.
C8_LegOrder ==
    \A i, j \in 1..Len(txs) :
        /\ (txs[i] = "jupiter_swap" /\ txs[j] = "etherfuse_redeem") => i < j
        /\ (txs[i] = "etherfuse_purchase" /\ txs[j] = "jupiter_swap") => i < j
        /\ (txs[i] = "update_oracle" /\ txs[j] # "update_oracle") => i < j
        /\ txs[i] = "etherfuse_redeem" => variant \in BuyOnRouter
        /\ txs[i] = "etherfuse_purchase" => variant \notin BuyOnRouter

\* BuyEtherfuseSellJupiter returned the oracle update and both legs
C8_Witness ==
    /\ pc = "done" /\ variant = "BuyEtherfuseSellJupiter" /\ result.kind = "ok"
    /\ Len(txs) = 3 /\ txs[2] = "etherfuse_purchase" /\ txs[3] = "jupiter_swap"

\* C9 as stated: a candidate of BuyEtherfuseSellJupiter is at most
\* min(sell liquidity, bond holdings valued at the issuer price).
C9_Original ==
    (variant = "BuyEtherfuseSellJupiter" /\ pc = "quote")
        => usdc_amount <= Min(md.sell_liquidity_usdc_amount,
                              md.stablebond_holdings_token_amount
                                  * md.etherfuse_price_per_token)

\* C9 amended: a candidate of BuyEtherfuseSellJupiter is at most 99% of the
\* wallet's quote-currency holdings.
C9_PurchaseBound ==
    variant = "BuyEtherfuseSellJupiter" =>
        LET u == md.usdc_holdings_token_amount
        IN  usdc_amount > 0 => usdc_amount <= u - ((u + 99) \div 100)

\* the largest candidate is quoted and exceeds the sell liquidity
C9_Witness ==
    /\ variant = "BuyEtherfuseSellJupiter" /\ pc = "quote"
    /\ idx = INITIAL_POINTS
    /\ usdc_amount > md.sell_liquidity_usdc_amount

\* C10 as stated: a candidate of JupiterSellBuyEtherfuse is at most
\* min(wallet quote amount, purchase liquidity valued at the issuer price).
C10_Original ==
    (variant = "JupiterSellBuyEtherfuse" /\ pc = "quote")
        => usdc_amount <= Min(md.usdc_holdings_token_amount,
                              md.purchase_liquidity_stablebond_amount
                                  * md.etherfuse_price_per_token)

\* C10 amended: a candidate of JupiterSellBuyEtherfuse is at most
\* min(sell liquidity, bond holdings valued at the issuer price); with a
\* sell liquidity of 0 no quote is requested.
C10_RedeemBound ==
    (variant = "JupiterSellBuyEtherfuse" /\ pc = "quote")
        => /\ usdc_amount <= md.sell_liquidity_usdc_amount
           /\ usdc_amount <= md.stablebond_holdings_token_amount
                                 * md.etherfuse_price_per_token
           /\ md.sell_liquidity_usdc_amount # 0

\* the largest candidate is quoted with no purchase liquidity in the snapshot
C10_Witness ==
    /\ variant = "JupiterSellBuyEtherfuse" /\ pc = "quote"
    /\ idx = INITIAL_POINTS
    /\ md.purchase_liquidity_stablebond_amount = 0
    /\ usdc_amount = md.stablebond_holdings_token_amount * md.etherfuse_price_per_token
    /\ usdc_amount < md.sell_liquidity_usdc_amount
\* C11: in the probe strategies, the third failed quote request of a
\* candidate (retries reaching MAX_RETRIES = 3) is followed by a fourth
\* request for the same candidate, whose quote is then evaluated.
C11_FourthCall ==
    [][(variant \in ProbeVariants /\ pc = "quote"
            /\ retries = MAX_RETRIES - 1 /\ retries' = MAX_RETRIES)
         => (pc' = "quote" /\ attempts' = MAX_RETRIES + 1
                /\ usdc_amount' = usdc_amount)]_vars

\* C12: every search ends, whatever the answers to its quote requests are
\* (a candidate is given up after a fixed number of failed requests).
C12_Terminates == <>(pc = "done")

\* what a probe strategy returns when every quote arrived and none was
\* profitable
NoProfitableTrades == Err("No profitable trades found")

\* C13: a probe strategy none of whose quote requests was answered (every
\* candidate given up after its failed requests) returns a result other than
\* the one it returns when every quote arrived and none was profitable.
C13_FailureDistinguishable ==
    (pc = "done" /\ variant \in ProbeVariants /\ gave_up /\ quoted = {})
        => result # NoProfitableTrades

\* C14: every outstanding quote request, in the probe strategies as in the
\* bisection, was issued after wait_if_needed returned, later than the
\* answer to the previous request.
C14_RateLimited ==
    (pc = "quote" /\ variant \in ProbeVariants \cup BisectVariants) => acquired

\* C15: at most one quote request of a search is outstanding; a request is
\* issued when none is outstanding or as the retry of the one that just
\* failed; the probe requests sizes in non-decreasing order and the bisection
\* requests the midpoint of its current interval.
C15_OneAtATime ==
    [][/\ in_flight' \in {0, 1}
       /\ (pc' = "quote") = (in_flight' = 1)
       /\ (variant \in ProbeVariants /\ pc' = "quote")
            => usdc_amount' >= usdc_amount
       /\ (variant \in BisectVariants /\ pc' = "quote")
            => usdc_amount' = left' + (right' - left') \div 2]_vars

\* a probe has the retried request of a later, larger point outstanding
\* after an earlier point was quoted and evaluated
C15_Witness ==
    /\ variant \in ProbeVariants /\ pc = "quote" /\ in_flight = 1
    /\ attempts = 2 /\ evaluated.any
    /\ usdc_amount > evaluated.first_usdc
\* C16: of the wait_if_needed calls made on one RateLimiter, no
\* max_requests + 1 return within less than one window: the return of a call
\* and the return of the max_requests-th call after it are at least a window
\* apart.
C16_AtMostMaxPerWindow ==
    rl_pc # "off" =>
        \A i \in 1..Len(completed) :
            i + max_requests <= Len(completed)
                => completed[i + max_requests] - completed[i] >= window

\* C17: when the calls are made back to back on a fresh limiter (the clock
\* advances only while a call sleeps), the k-th call returns no earlier than
\* floor((k-1)/max_requests) windows after the first call started; with
\* window 1 s and max_requests 2, the fifth no earlier than 2 s.
C17_BackToBack ==
    (rl_pc # "off" /\ ~idle_ticks) =>
        \A k \in 1..Len(completed) :
            completed[k] >= ((k - 1) \div max_requests) * window

\* C18: a call that slept is released exactly at window minus the age of the
\* oldest timestamp after its entry, and the timestamp a returned call has
\* pushed is the time at which it returned.
C18_StampIsReturnTime ==
    /\ rl_pc = "sleeping" => wake_at = now + (window - (now - Head(requests)))
    /\ (rl_pc = "idle" /\ completed # << >>)
         => requests[Len(requests)] = completed[Len(completed)]
\* C19: a cycle whose first search returned an error goes on: the second
\* search is run (or about to run) and run() has not returned.
C19_ErrorNotFatal ==
    (cy_pc # "off" /\ outcomes # << >> /\ outcomes[1].kind = "err")
        => /\ run_result = "running"
           /\ cy_pc = "second" \/ Len(outcomes) = 2

\* C20: once a cycle has selected, best_strategy is one of the results of the
\* cycle, no result has a greater profit, no earlier result has the same
\* profit, and the selection did not end run().
C20_BestSelected ==
    (cy_pc = "tick" /\ results # << >>)
        => /\ run_result = "running"
           /\ \E i \in 1..Len(results) :
                /\ best_strategy = results[i]
                /\ \A j \in 1..Len(results) :
                     /\ results[j].profit <= results[i].profit
                     /\ results[j].profit = results[i].profit => i <= j

\* both searches returned the same positive profit and the first is selected
C20_Witness ==
    /\ cy_pc = "tick" /\ Len(results) = 2
    /\ results[1].profit = results[2].profit /\ results[1].profit > 0
    /\ best_strategy = results[1]
\* C21: at most one cycle is in progress: a cycle starts only when the one
\* before it is over (its result selected), also when the interval's next
\* tick was ready before that cycle ended.
C21_NoOverlap ==
    [][/\ running' \in {0, 1}
       /\ cycles' # cycles => (running = 0 /\ cy_pc = "tick")]_vars

\* the second cycle has started although its tick was ready while the first
\* cycle was still running
C21_Witness ==
    /\ cycles = 2 /\ cy_pc = "fetch" /\ running = 1
    /\ overran /\ ~tick_due

\* C22: run() does not return with the error of a cycle: after a failed fetch
\* or a strategy error the loop is still running.
C22_LoopSurvivesErrors == run_result # "err"
\* C23: every bundle submitted is the caller's transactions, all of them and
\* in their order, followed by the tip transaction as its only other and
\* last element.
C23_TipLast ==
    \A i \in 1..Len(submitted) :
        LET b == submitted[i]
        IN  /\ Len(b) = Len(caller_txs) + 1
            /\ SubSeq(b, 1, Len(caller_txs)) = caller_txs
            /\ b[Len(b)] = tip_tx
            /\ \A k \in 1..Len(caller_txs) : b[k] # tip_tx

\* a bundle of three caller transactions was submitted
C23_Witness ==
    /\ Len(submitted) = 1 /\ Len(caller_txs) = 3 /\ jt_pc = "poll"

\* C24: a poll answered Landed or Failed ends check_bundle_status with that
\* status, and no poll is made after it; so the answers Pending, Pending,
\* Landed give Landed after three polls.
C24_StopsOnFinalStatus ==
    /\ [](last_status \in {"Landed", "Failed"} => status_result = last_status)
    /\ [][(last_status \in {"Landed", "Failed"}) => (polls' = polls)]_vars

\* the answers were Pending, Pending, Landed and Landed was returned
C24_Witness ==
    /\ jt_pc = "done" /\ polls = 3 /\ seen = {"Pending"}
    /\ last_status = "Landed" /\ status_result = "Landed"
    /\ elapsed < timeout

\* C25 as stated: the status returned is one of Landed, Failed, Unknown,
\* Timeout, and once a poll was answered Invalid the status returned is
\* Timeout.
C25_Original ==
    (jt_pc = "done" /\ status_result \notin {"none", "Err", "SendError"})
        => /\ status_result \in {"Landed", "Failed", "Unknown", "Timeout"}
           /\ "Invalid" \in seen => status_result = "Timeout"

\* C25: Landed is returned for the answer Landed, Failed for Failed, Unknown
\* for a status the match does not name, Timeout when the 30 s are over;
\* after Pending and after Invalid alike the polling goes on one second
\* later; nothing else is returned but the error of a status request.
C25_StatusMapping ==
    /\ status_result \in {"none", "Landed", "Failed", "Unknown", "Timeout", "Err", "SendError"}
    /\ status_result \in {"Landed", "Failed"} => last_status = status_result
    /\ status_result = "Unknown" => last_status = "Other"
    /\ status_result = "Timeout" => elapsed >= timeout
    /\ status_result = "Err" => last_status = "error"
    /\ (last_status \in {"Pending", "Invalid"} /\ status_result = "none")
         => jt_pc \in {"sleep_pending", "poll"}

\* a poll was answered Invalid, the polling went on and ended with Landed
C25_Witness ==
    /\ "Invalid" \in seen /\ status_result = "Landed" /\ jt_pc = "done"

\* C26: check_bundle_status ends; it makes at most one poll per second of
\* the timeout; when no poll was answered with a final status or an error it
\* returns Timeout, 30 s or more after its start.
C26_PollingEnds ==
    /\ [](polls <= timeout)
    /\ [](status_result = "Timeout" => elapsed >= timeout)
    /\ []((jt_pc = "done" /\ last_status \in {"Pending", "Invalid", "no_response", "empty"})
            => status_result = "Timeout")
    /\ (jt_pc = "poll") ~> (status_result # "none")

\* the timeout was returned after thirty polls, none answered with a status
\* that ends the polling
C26_Witness ==
    /\ status_result = "Timeout" /\ polls = timeout
    /\ last_status \in {"Pending", "Invalid", "no_response", "empty"}

\* C27: once a sendBundle request was made, send_bundle returns Ok(()),
\* whatever came of the bundle.
C27_AlwaysOk ==
    (jt_pc = "done" /\ submitted # << >>) => send_result = "Ok"

\* send_bundle returned Ok(()) after a status request had failed
C27_Witness ==
    /\ jt_pc = "done" /\ status_result = "Err" /\ send_result = "Ok"

\* C28: one call of send_bundle makes at most one sendBundle request, and
\* exactly one when it reports an outcome.
C28_SubmitOnce ==
    /\ Len(submitted) <= 1
    /\ status_result # "none" => Len(submitted) = 1

\* send_bundle is over after a Failed bundle, submitted once
C28_Witness ==
    /\ jt_pc = "done" /\ status_result = "Failed" /\ Len(submitted) = 1

\* C29: every with_X step other than the issuer price stores zero when its
\* fetch fails and lets construction continue; construction is aborted only
\* by a failed issuer price fetch.
C29_OnlyPriceAborts ==
    /\ \A f \in mb_failed \ {"etherfuse_price_per_token"} : mb[f] = 0
    /\ bd_pc = "aborted" => "etherfuse_price_per_token" \in mb_failed

\* C30: in a snapshot returned by build() neither holdings field exceeds its
\* per-trade ceiling, whatever the wallet balance was, and a balance that
\* does not exceed the ceiling is stored unchanged.
C30_HoldingsClamped ==
    bd_pc = "built" =>
        /\ snapshot.stablebond_holdings_token_amount <= MAX_STABLEBOND_AMOUNT_PER_TRADE
        /\ snapshot.usdc_holdings_token_amount <= MAX_USDC_AMOUNT_PER_TRADE
        /\ (/\ mb_balance.stablebond >= 0
            /\ mb_balance.stablebond <= MAX_STABLEBOND_AMOUNT_PER_TRADE)
              => snapshot.stablebond_holdings_token_amount = mb_balance.stablebond
        /\ (/\ mb_balance.usdc >= 0
            /\ mb_balance.usdc <= MAX_USDC_AMOUNT_PER_TRADE)
              => snapshot.usdc_holdings_token_amount = mb_balance.usdc
\* a snapshot built from a bond balance above its ceiling, stored as the
\* ceiling, and from a quote balance just below its ceiling, stored as it is
C30_Witness ==
    /\ bd_pc = "built"
    /\ mb_balance.stablebond > MAX_STABLEBOND_AMOUNT_PER_TRADE
    /\ snapshot.stablebond_holdings_token_amount = MAX_STABLEBOND_AMOUNT_PER_TRADE
    /\ mb_balance.usdc = MAX_USDC_AMOUNT_PER_TRADE - 1
    /\ snapshot.usdc_holdings_token_amount = MAX_USDC_AMOUNT_PER_TRADE - 1

\* C31: a math error met while a candidate is evaluated ends the search
\* with that error returned to the caller: once a quote has a price that is
\* not finite, the search has returned Err("Math overflow").
C31_MathErrorPropagated ==
    NonFinite \in quoted => (pc = "done" /\ result = Err("Math overflow"))

\* C32: when jupiter_swap_tx fails on the winning quote, the probe strategy
\* returns an error, not a successful StrategyResult; and jupiter_swap_tx is
\* called at most once per search, with the quote of the winning candidate.
C32_SwapFailureSurfaced ==
    (pc = "done" /\ variant \in ProbeVariants) =>
        \A i \in 1..Len(built) :
            built[i].tx = "jupiter_swap" =>
                /\ ~built[i].ok => result.kind = "err"
                /\ built[i].quote = best_quote
                /\ \A j \in 1..Len(built) : built[j].tx = "jupiter_swap" => j = i

\* C33: checked_mul, checked_add, checked_sub and checked_div return the
\* overflow error exactly when the product or the sum leaves the word, the
\* difference is negative, or the divisor is 0, and the exact result
\* otherwise; never a wrapped or saturated value.
C33_CheckedExact ==
    /\ m_op = "checked_mul" =>
          IF arg1 * arg2 >= Pow(2, WordBits) THEN m_out = MathOverflow
          ELSE m_out.ok /\ m_out.val = arg1 * arg2
    /\ m_op = "checked_add" =>
          IF arg1 + arg2 >= Pow(2, WordBits) THEN m_out = MathOverflow
          ELSE m_out.ok /\ m_out.val = arg1 + arg2
    /\ m_op = "checked_sub" =>
          IF arg1 < arg2 THEN m_out = MathOverflow
          ELSE m_out.ok /\ m_out.val = arg1 - arg2
    /\ m_op = "checked_div" =>
          IF arg2 = 0 THEN m_out = MathOverflow
          ELSE m_out.ok /\ m_out.val * arg2 <= arg1 /\ arg1 < (m_out.val + 1) * arg2
\* a product that leaves the word although both factors are small, and
\* whose wrapped value would be a plausible result
C33_Witness ==
    /\ m_op = "checked_mul" /\ m_out = MathOverflow
    /\ arg1 * arg2 > U64_MAX /\ (arg1 * arg2) % Pow(2, WordBits) = 1

\* C34: for every raw amount of the word and every decimals, the round trip
\* to_token_amount(to_ui_amount(raw, decimals), decimals) succeeds and
\* returns a value within 1 of raw.
C34_RoundTrip ==
    m_op = "round_trip" =>
        /\ m_out.ok
        /\ m_out.val - arg1 <= 1 /\ arg1 - m_out.val <= 1

\* the least k with 2^k >= x (0 for x <= 1)
CeilLog2(x) == CHOOSE k \in 0..30 : Pow(2, k) >= x /\ (k > 0 => Pow(2, k - 1) < x)

\* C35: the bisection quotes the midpoint of [left, right], which lies in
\* [MIN_USDC_AMOUNT, M]; a midpoint whose profit is strictly greater than
\* the best so far becomes the best and moves left to mid + 1, any other
\* moves right to mid - 1, which stays a natural number; the interval
\* shrinks at every iteration, and the iterations number at most
\* ceil(log2(M - MIN_USDC_AMOUNT + 2)).
C35_Bisection ==
    /\ []((variant \in BisectVariants /\ pc \in {"acquire", "quote"}) =>
            /\ usdc_amount = left + (right - left) \div 2
            /\ left <= usdc_amount /\ usdc_amount <= right
            /\ MIN_USDC_AMOUNT <= usdc_amount /\ usdc_amount <= max_amount)
    /\ [](variant \in BisectVariants =>
            /\ right >= 0
            /\ idx <= CeilLog2(max_amount - MIN_USDC_AMOUNT + 2))
    /\ [][(variant \in BisectVariants /\ pc = "quote" /\ pc' = "head") =>
            /\ right' - left' < right - left
            /\ IF evaluated'.max > best_profit
               THEN /\ left' = usdc_amount + 1 /\ right' = right
                    /\ best_usdc_amount' = usdc_amount
               ELSE /\ right' = usdc_amount - 1 /\ left' = left
                    /\ UNCHANGED best]_vars
\* a bisection over five sizes returned after three midpoints, having moved
\* both ends of the interval
C35_Witness ==
    /\ variant \in BisectVariants /\ pc = "done" /\ result.kind = "ok"
    /\ max_amount = MIN_USDC_AMOUNT + 4
    /\ idx = 3 /\ idx = CeilLog2(max_amount - MIN_USDC_AMOUNT + 2)
    /\ left > MIN_USDC_AMOUNT /\ right < max_amount

\* C36: in a probe search the four best-so-far variables describe one
\* evaluated candidate: without a best quote they are all zero and no
\* evaluated candidate had a positive profit; with one, best_quote is the
\* quote obtained for best_usdc_amount / best_stablebond_amount, best_profit
\* is the profit of that candidate and the greatest profit evaluated so far;
\* best_profit never decreases, and a successful result has profit > 0.
C36_BestIsOneCandidate ==
    /\ [](variant \in ProbeVariants =>
            /\ best_quote = NoQuote =>
                  /\ best_profit = 0 /\ best_usdc_amount = 0
                  /\ best_stablebond_amount = 0
                  /\ evaluated.any => evaluated.max <= 0
            /\ best_quote # NoQuote =>
                  /\ best_quote.in_amount =
                        QuoteAmount(variant, best_usdc_amount, best_stablebond_amount)
                  /\ best_stablebond_amount =
                        StablebondFor(best_usdc_amount, md.etherfuse_price_per_token)
                  /\ best_profit = BestGrossProfit
                  /\ best_profit = evaluated.max
                  /\ best_profit > 0
            /\ (pc = "done" /\ result.kind = "ok") => result.profit > 0)
    /\ [][(variant \in ProbeVariants) => (best_profit' >= best_profit)]_vars
\* a probe returned a best candidate that is neither its first point, which
\* was quoted too, nor its last one, after quotes at two prices or more
C36_Witness ==
    /\ variant \in ProbeVariants /\ pc = "done" /\ result.kind = "ok"
    /\ best_usdc_amount > CandidateUsdc(max_amount, 1)
    /\ CandidateUsdc(max_amount, 1) >= MIN_USDC_AMOUNT
    /\ best_usdc_amount < max_amount
    /\ Cardinality(quoted) >= 2

\* C37: the txs of a StrategyResult hold both trade legs or none, whichever
\* builder failed: txs is [], [oracle], [leg, leg] or [oracle, leg, leg],
\* with the two legs exactly when both builders returned Ok.
C37_LegsAllOrNothing ==
    (pc = "done" /\ result.kind = "ok") =>
        /\ txs \in {<< >>, <<"update_oracle">>, Legs(variant),
                     <<"update_oracle">> \o Legs(variant)}
        /\ Len(txs) >= 2 <=>
              (Len(built) = 3 /\ built[2].ok /\ built[3].ok)
\* a probe result whose first leg was built and whose second leg failed:
\* no leg is in txs
C37_Witness ==
    /\ pc = "done" /\ result.kind = "ok" /\ variant \in ProbeVariants
    /\ Len(built) = 3 /\ built[1].ok /\ built[2].ok /\ ~built[3].ok
    /\ txs = <<"update_oracle">>

\* C38: between two wait_if_needed calls the queue holds at most
\* max_requests timestamps, in non-decreasing order from front to back.
C38_QueueBounded ==
    rl_pc = "idle" =>
        /\ Len(requests) <= max_requests
        /\ \A i \in 1..(Len(requests) - 1) : requests[i] <= requests[i + 1]

\* C39: window - now.duration_since(oldest) never underflows: a call that
\* sleeps has a front timestamp no older than the window, so its wait time
\* lies in 0..window; and a call sleeps only when at least max_requests
\* timestamps are left after the pruning.
C39_WaitTimeInRange ==
    /\ [](rl_pc = "sleeping" =>
            /\ requests # << >>
            /\ now - Head(requests) >= 0 /\ now - Head(requests) <= window
            /\ wake_at - now = window - (now - Head(requests))
            /\ wake_at - now >= 0)
    /\ [][(rl_pc = "idle" /\ rl_pc' = "sleeping") =>
            (/\ max_requests >= 1
             /\ Len(Prune(requests, clock, window)) >= max_requests)]_vars
    /\ [][(rl_pc = "idle" /\ Len(Prune(requests, clock, window)) < max_requests) =>
            (rl_pc' = "idle")]_vars
\* a call sleeps for part of the window after an older timestamp was pruned
C39_Witness ==
    /\ rl_pc = "sleeping" /\ Len(requests) < Len(completed)
    /\ wake_at > now /\ wake_at - now < window

\* C40: the main task of TestArb goes on to build and submit only after it
\* has read a tip that is not 0 and that the stream task has written; and
\* once the stream task has written a tip that is not 0 the main task
\* eventually goes on.
C40_TipHandshake ==
    /\ [](main_pc \in {"proceed", "done"} =>
            (tip_seen # 0 /\ tip_seen \in written))
    /\ ((written \ {0} # {}) ~> (main_pc \in {"proceed", "done"}))

=============================================================================
